---- MODULE Spec2Model ----
(***************************************************************************)
(* The two quadrature-decoder drivers of microbit-dal,                     *)
(* MicroBitQuadratureDecoder and MicroBitQDec, sharing the one NRF_QDEC    *)
(* peripheral and the system tick dispatcher.                              *)
(*                                                                         *)
(* Every driver method is an operator from the program state (a record of  *)
(* the objects, the peripheral registers, the dispatcher's registrations   *)
(* and the pins) to the state it leaves; a method that returns a value     *)
(* yields [st, ret].  An action is one whole call of one method, or one    *)
(* access of a call that is taken access by access.                        *)
(***************************************************************************)
EXTENDS Integers, Sequences, FiniteSets, TLC

VARIABLES
    obj,        \* obj[i]: the fields of driver object i, NoObject when not constructed
    QDEC,       \* the NRF_QDEC register block and the accumulators behind it
    timer,      \* timer[i]: how many dispatcher slots hold component i
    pinEvent,   \* pinEvent[n]: the event mode of the application's pin named n
    call,       \* the most recent completed call: [op, self, arg, ret]
    nSamples,   \* how many encoder samples the hardware has taken (bounded)
    drained,    \* drained[i]: what the polled hardware has delivered to object i,
                \* sums over the polls, and whether a tick has run inside a poll()
    pc          \* the call taken step by step that is in progress, the step it
                \* is at and the values it holds outside memory

vars == <<obj, QDEC, timer, pinEvent, call, nSamples, drained, pc>>

(***************************************************************************)
(* Bounds of the model.                                                    *)
(***************************************************************************)
MaxSamples == 1
MaxPollSamples == 2

(***************************************************************************)
(* Program constants.                                                      *)
(***************************************************************************)
MICROBIT_COMPONENT_RUNNING == 1
QDEC_STATUS_USING_SYSTEM_TICK == 2
QDEC_STATUS_USING_DEBOUNCE == 4
QDEC_STATUS_LED_ACTIVE_LOW == 8
UINT16_MAX == 65535
NC == -1
MICROBIT_PIN_EVENT_NONE == 0
MICROBIT_PIN_EVENT_ON_EDGE == 1

MICROBIT_OK == "MICROBIT_OK"
MICROBIT_BUSY == "MICROBIT_BUSY"
MICROBIT_INVALID_PARAMETER == "MICROBIT_INVALID_PARAMETER"
VOID == "void"

(***************************************************************************)
(* The objects of the model: two MicroBitQuadratureDecoder and one         *)
(* MicroBitQDec, each with phase pins of its own.                          *)
(***************************************************************************)
QDInst == {"qd1", "qd2"}
QDecInst == {"qdec"}
Inst == QDInst \cup QDecInst

PhaseAPin(i) == CASE i = "qd1" -> 1 [] i = "qd2" -> 4 [] OTHER -> 7
PhaseBPin(i) == CASE i = "qd1" -> 2 [] i = "qd2" -> 5 [] OTHER -> 8
LEDPinOf(i) == CASE i = "qd1" -> 3 [] i = "qd2" -> 6 [] OTHER -> 9
PinNames == {NC} \cup UNION {{PhaseAPin(i), PhaseBPin(i), LEDPinOf(i)} : i \in Inst}

NoObject == [cls |-> "none"]
Alive(i) == obj[i].cls # "none"

(***************************************************************************)
(* Machine arithmetic.  A 32-bit word is the pair <<high half, low half>>  *)
(* of its 16-bit halves, so that every uint32_t value has a representation.*)
(***************************************************************************)
\* Conversion of an int to uint32_t (two's complement image).
ToU32(n) == <<(n \div 65536) % 65536, n % 65536>>
\* The cast (int32_t)w of a uint32_t.
AsInt32(w) == IF w[1] >= 32768 THEN (w[1] - 65536) * 65536 + w[2]
              ELSE w[1] * 65536 + w[2]
\* uint32_t addition of a small unsigned value, modulo 2^32.
U32Add(w, n) == LET lo == w[2] + n
                IN  <<(w[1] + (lo \div 65536)) % 65536, lo % 65536>>
\* uint32_t addition of two words, modulo 2^32.
U32Sum(a, b) == LET lo == a[2] + b[2]
                IN  <<(a[1] + b[1] + (lo \div 65536)) % 65536, lo % 65536>>
\* The carry out of the uint32_t addition of two words.
Carry(a, b) == (a[1] + b[1] + ((a[2] + b[2]) \div 65536)) \div 65536
\* An int64_t is held in memory as two 32-bit words, which the 32-bit
\* processor loads and stores one at a time.
Words == {"hi", "lo"}
\* Conversion of an int to int64_t (sign extension).
Int64(n) == [hi |-> ToU32(IF n < 0 THEN -1 ELSE 0), lo |-> ToU32(n)]
\* int64_t addition of an int, modulo 2^64: the low words are added and the
\* carry goes to the sum of the high words.
Add64(p, n) ==
    [hi |-> U32Add(U32Sum(p.hi, Int64(n).hi), Carry(p.lo, Int64(n).lo)),
     lo |-> U32Sum(p.lo, Int64(n).lo)]
\* Order of two uint32_t values.
U32Leq(a, b) == a[1] < b[1] \/ (a[1] = b[1] /\ a[2] <= b[2])
\* Conversion of an int to uint16_t.
ToU16(n) == n % 65536
\* int min(int, int) of MicroBitCompat.h.
min(a, b) == IF a < b THEN a ELSE b

\* (s & m) != 0, s | m and s & ~m for a one-bit mask m.
Bit(s, m) == (s \div m) % 2 = 1
SetBit(s, m) == IF Bit(s, m) THEN s ELSE s + m
ClearBit(s, m) == IF Bit(s, m) THEN s - m ELSE s

(***************************************************************************)
(* The NRF_QDEC peripheral.  ACC and ACCDBL are the accumulators the       *)
(* samples go to; READCLRACC copies them to ACCREAD and ACCDBLREAD and     *)
(* clears them.                                                            *)
(***************************************************************************)
QDECReset ==
    [ENABLE |-> 0, started |-> FALSE, SHORTS |-> 0, INTEN |-> 0, LEDPOL |-> 0,
     SAMPLEPER |-> ToU32(0), REPORTPER |-> 0, PSELLED |-> ToU32(NC),
     PSELA |-> ToU32(NC), PSELB |-> ToU32(NC), DBFEN |-> 0, LEDPRE |-> 16,
     ACC |-> 0, ACCDBL |-> 0, ACCREAD |-> ToU32(0), ACCDBLREAD |-> 0]

TASKS_READCLRACC(q) ==
    [q EXCEPT !.ACCREAD = ToU32(q.ACC), !.ACCDBLREAD = q.ACCDBL,
              !.ACC = 0, !.ACCDBL = 0]
TASKS_START(q) == [q EXCEPT !.started = TRUE]
TASKS_STOP(q) == [q EXCEPT !.started = FALSE]

\* One sample of the encoder inputs: a step d, or a double transition (e = 1).
HwAccumulate(q, d, e) ==
    [q EXCEPT !.ACC = IF @ + d < -1024 \/ @ + d > 1023 THEN @ ELSE @ + d,
              !.ACCDBL = min(15, @ + e)]

(***************************************************************************)
(* The system tick dispatcher and the pins.                                *)
(***************************************************************************)
system_timer_add_component(s, i) == [s EXCEPT !.timer[i] = @ + 1]
system_timer_remove_component(s, i) ==
    [s EXCEPT !.timer[i] = IF @ > 0 THEN @ - 1 ELSE 0]
\* MicroBitPin::eventOn() of the application's pin named n.
eventOn(s, n, mode) == [s EXCEPT !.pinEvent[n] = mode]
\* A MicroBitPin object made by copying the application's pin named n: it has
\* the name and, from then on, an event mode of its own.
MicroBitPin(s, n) == [name |-> n, event |-> s.pinEvent[n]]

State == [obj |-> obj, QDEC |-> QDEC, timer |-> timer, pinEvent |-> pinEvent]
Commit(s) ==
    /\ obj' = s.obj
    /\ QDEC' = s.QDEC
    /\ timer' = s.timer
    /\ pinEvent' = s.pinEvent
Returned(op, i, arg, r) == call' = [op |-> op, self |-> i, arg |-> arg, ret |-> r]

(***************************************************************************)
(* class MicroBitQuadratureDecoder                                         *)
(***************************************************************************)
\* The members phaseA, phaseB and LED are declared in one declaration,
\* MicroBitPin& phaseA, phaseB, LED: phaseA is a reference to the
\* application's pin (here its name), phaseB and LED are MicroBitPin objects
\* that the constructor copies from its arguments.

\* The constructor taking an LED pin.
MicroBitQuadratureDecoder(s, i, LED_, LEDDelay_, flags) ==
    [s EXCEPT !.obj[i] =
        [cls |-> "MicroBitQuadratureDecoder", position |-> Int64(0),
         samplePeriod |-> 128,
         errors |-> 0, phaseA |-> PhaseAPin(i),
         phaseB |-> MicroBitPin(s, PhaseBPin(i)),
         LED |-> MicroBitPin(s, LED_), LEDDelay |-> LEDDelay_,
         status |-> ClearBit(flags, MICROBIT_COMPONENT_RUNNING)]]

\* The constructor without an LED pin: LED is a copy of pinNC.
MicroBitQuadratureDecoderNoLED(s, i, flags) ==
    [s EXCEPT !.obj[i] =
        [cls |-> "MicroBitQuadratureDecoder", position |-> Int64(0),
         samplePeriod |-> 128,
         errors |-> 0, phaseA |-> PhaseAPin(i),
         phaseB |-> MicroBitPin(s, PhaseBPin(i)),
         LED |-> MicroBitPin(s, NC), LEDDelay |-> 0,
         status |-> ClearBit(ClearBit(flags, MICROBIT_COMPONENT_RUNNING),
                             QDEC_STATUS_LED_ACTIVE_LOW)]]

\* An enableSystemTick() that registers a running object whether or not
\* periodic polling is already selected.
enableSystemTick_unguarded(s, i) ==
    LET s1 == [s EXCEPT !.obj[i].status = SetBit(@, QDEC_STATUS_USING_SYSTEM_TICK)]
    IN  IF Bit(s1.obj[i].status, MICROBIT_COMPONENT_RUNNING)
        THEN system_timer_add_component(s1, i)
        ELSE s1

enableSystemTick(s, i) ==
    IF ~Bit(s.obj[i].status, QDEC_STATUS_USING_SYSTEM_TICK)
    THEN LET s1 == [s EXCEPT !.obj[i].status = SetBit(@, QDEC_STATUS_USING_SYSTEM_TICK)]
         IN  IF Bit(s1.obj[i].status, MICROBIT_COMPONENT_RUNNING)
             THEN system_timer_add_component(s1, i)
             ELSE s1
    ELSE s

\* A disableSystemTick() that clears the flag and never deregisters.
disableSystemTick_flagOnly(s, i) ==
    [s EXCEPT !.obj[i].status = ClearBit(@, QDEC_STATUS_USING_SYSTEM_TICK)]

disableSystemTick(s, i) ==
    LET s1 == [s EXCEPT !.obj[i].status = ClearBit(@, QDEC_STATUS_USING_SYSTEM_TICK)]
    IN  IF Bit(s1.obj[i].status, MICROBIT_COMPONENT_RUNNING)
        THEN system_timer_remove_component(s1, i)
        ELSE s1

\* A setSamplePeriodUs() that also sets position and errors back to 0.
setSamplePeriodUs_clearsCounts(s, i, period) ==
    IF period < 128
    THEN [st |-> s, ret |-> MICROBIT_INVALID_PARAMETER]
    ELSE [st |-> [s EXCEPT !.obj[i].samplePeriod = period,
                           !.obj[i].position = Int64(0),
                           !.obj[i].errors = 0],
          ret |-> MICROBIT_OK]

\* A setSamplePeriodUs() that accepts every period.
setSamplePeriodUs_unchecked(s, i, period) ==
    [st |-> [s EXCEPT !.obj[i].samplePeriod = period], ret |-> MICROBIT_OK]

\* A setSamplePeriodUs() that also writes the level of the new period to
\* NRF_QDEC->SAMPLEPER at once.
setSamplePeriodUs_writesRegister(s, i, period) ==
    IF period < 128
    THEN [st |-> s, ret |-> MICROBIT_INVALID_PARAMETER]
    ELSE [st |-> [s EXCEPT
                    !.obj[i].samplePeriod = period,
                    !.QDEC.SAMPLEPER =
                        ToU32(CHOOSE k \in 0..7 :
                                  /\ 128 * (2 ^ k) <= period
                                  /\ (k = 7 \/ 128 * (2 ^ (k + 1)) > period))],
          ret |-> MICROBIT_OK]

\* A setSamplePeriodUs() that also rejects the floor itself.
setSamplePeriodUs_rejectsFloor(s, i, period) ==
    IF period <= 128
    THEN [st |-> s, ret |-> MICROBIT_INVALID_PARAMETER]
    ELSE [st |-> [s EXCEPT !.obj[i].samplePeriod = period], ret |-> MICROBIT_OK]

setSamplePeriodUs(s, i, period) ==
    IF period < 128
    THEN [st |-> s, ret |-> MICROBIT_INVALID_PARAMETER]
    ELSE [st |-> [s EXCEPT !.obj[i].samplePeriod = period], ret |-> MICROBIT_OK]

getSamplePeriod(s, i) == s.obj[i].samplePeriod

\* The search loop of start(): from level k down to 0, the first level whose
\* period 128u << k is not above samplePeriod; -1 when the loop runs out.
RECURSIVE FindSamplePer(_, _)
FindSamplePer(k, samplePeriod) ==
    IF k >= 0
    THEN IF 128 * (2 ^ k) <= samplePeriod THEN k ELSE FindSamplePer(k - 1, samplePeriod)
    ELSE k

\* eventOn(mode) called on each of the three members of object i: on the pin
\* phaseA refers to, and on the objects phaseB and LED that the object holds.
phaseA_eventOn(s, i, mode) == eventOn(s, s.obj[i].phaseA, mode)
phaseB_eventOn(s, i, mode) == [s EXCEPT !.obj[i].phaseB.event = mode]
LED_eventOn(s, i, mode) == [s EXCEPT !.obj[i].LED.event = mode]

\* Lines 153-158 of start(): no more edge events from the decoder's pins.
StopPinEvents(s, i) ==
    LET s1 == IF s.obj[i].LED.name # NC
              THEN LED_eventOn(s, i, MICROBIT_PIN_EVENT_NONE) ELSE s
        s2 == phaseA_eventOn(s1, i, MICROBIT_PIN_EVENT_NONE)
    IN  phaseB_eventOn(s2, i, MICROBIT_PIN_EVENT_NONE)

\* A start() that tests only its own running flag, not NRF_QDEC->ENABLE.
start_ignoresENABLE(s, i) ==
    LET o == s.obj[i]
    IN  IF Bit(o.status, MICROBIT_COMPONENT_RUNNING)
        THEN [st |-> s, ret |-> MICROBIT_BUSY]
        ELSE LET s1 == [s EXCEPT !.QDEC.SAMPLEPER = ToU32(FindSamplePer(7, o.samplePeriod)),
                                 !.QDEC.PSELA = ToU32(o.phaseA),
                                 !.QDEC.PSELB = ToU32(o.phaseB.name),
                                 !.QDEC.ENABLE = 1]
                 s2 == [s1 EXCEPT !.QDEC = TASKS_START(TASKS_READCLRACC(@))]
             IN  [st |-> [s2 EXCEPT !.obj[i].status =
                                        SetBit(@, MICROBIT_COMPONENT_RUNNING)],
                  ret |-> MICROBIT_OK]

\* A start() that enables and starts the peripheral without triggering
\* TASKS_READCLRACC first.
start_withoutClear(s, i) ==
    LET o == s.obj[i]
        sampleper == FindSamplePer(7, o.samplePeriod)
    IN  IF s.QDEC.ENABLE # 0 \/ Bit(o.status, MICROBIT_COMPONENT_RUNNING)
        THEN [st |-> s, ret |-> MICROBIT_BUSY]
        ELSE
          LET s1 == [s EXCEPT
                       !.QDEC.SHORTS = 0,
                       !.QDEC.INTEN = 0,
                       !.QDEC.LEDPOL =
                           IF Bit(o.status, QDEC_STATUS_LED_ACTIVE_LOW) THEN 0 ELSE 1,
                       !.QDEC.SAMPLEPER = ToU32(sampleper),
                       !.QDEC.REPORTPER = 7,
                       !.QDEC.PSELLED = ToU32(o.LED.name),
                       !.QDEC.PSELA = ToU32(o.phaseA),
                       !.QDEC.PSELB = ToU32(o.phaseB.name),
                       !.QDEC.DBFEN =
                           IF Bit(o.status, QDEC_STATUS_USING_DEBOUNCE) THEN 1 ELSE 0,
                       !.QDEC.LEDPRE = o.LEDDelay]
              s2 == StopPinEvents(s1, i)
              s4 == [s2 EXCEPT !.QDEC.ENABLE = 1]
              s5 == [s4 EXCEPT !.QDEC = TASKS_START(@)]
              s6 == [s5 EXCEPT !.obj[i].status = SetBit(@, MICROBIT_COMPONENT_RUNNING)]
              s7 == IF Bit(s6.obj[i].status, QDEC_STATUS_USING_SYSTEM_TICK)
                    THEN system_timer_remove_component(s6, i)
                    ELSE s6
          IN  [st |-> s7, ret |-> MICROBIT_OK]

start(s, i) ==
    LET o == s.obj[i]
        sampleper == FindSamplePer(7, o.samplePeriod)
    IN  IF s.QDEC.ENABLE # 0 \/ Bit(o.status, MICROBIT_COMPONENT_RUNNING)
        THEN [st |-> s, ret |-> MICROBIT_BUSY]
        ELSE
          LET s1 == [s EXCEPT
                       !.QDEC.SHORTS = 0,
                       !.QDEC.INTEN = 0,
                       !.QDEC.LEDPOL =
                           IF Bit(o.status, QDEC_STATUS_LED_ACTIVE_LOW) THEN 0 ELSE 1,
                       !.QDEC.SAMPLEPER = ToU32(sampleper),
                       !.QDEC.REPORTPER = 7,
                       !.QDEC.PSELLED = ToU32(o.LED.name),
                       !.QDEC.PSELA = ToU32(o.phaseA),
                       !.QDEC.PSELB = ToU32(o.phaseB.name),
                       !.QDEC.DBFEN =
                           IF Bit(o.status, QDEC_STATUS_USING_DEBOUNCE) THEN 1 ELSE 0,
                       !.QDEC.LEDPRE = o.LEDDelay]
              s2 == StopPinEvents(s1, i)
              s3 == [s2 EXCEPT !.QDEC = TASKS_READCLRACC(@)]
              s4 == [s3 EXCEPT !.QDEC.ENABLE = 1]
              s5 == [s4 EXCEPT !.QDEC = TASKS_START(@)]
              s6 == [s5 EXCEPT !.obj[i].status = SetBit(@, MICROBIT_COMPONENT_RUNNING)]
              s7 == IF Bit(s6.obj[i].status, QDEC_STATUS_USING_SYSTEM_TICK)
                    THEN system_timer_remove_component(s6, i)
                    ELSE s6
          IN  [st |-> s7, ret |-> MICROBIT_OK]

\* A stop() that issues TASKS_STOP and leaves NRF_QDEC->ENABLE as it is.
stop_keepsENABLE(s, i) ==
    LET s1 == IF Bit(s.obj[i].status, QDEC_STATUS_USING_SYSTEM_TICK)
              THEN system_timer_remove_component(s, i)
              ELSE s
    IN  IF Bit(s1.obj[i].status, MICROBIT_COMPONENT_RUNNING)
        THEN LET s2 == [s1 EXCEPT !.QDEC = TASKS_STOP(@)]
             IN  [s2 EXCEPT !.obj[i].status = ClearBit(@, MICROBIT_COMPONENT_RUNNING)]
        ELSE s1

\* A stop() that stops and disables the peripheral whether or not this
\* object is the one running.
stop_unguarded(s, i) ==
    LET s1 == IF Bit(s.obj[i].status, QDEC_STATUS_USING_SYSTEM_TICK)
              THEN system_timer_remove_component(s, i)
              ELSE s
        s2 == [s1 EXCEPT !.QDEC = TASKS_STOP(@)]
        s3 == [s2 EXCEPT !.QDEC.ENABLE = 0]
    IN  [s3 EXCEPT !.obj[i].status = ClearBit(@, MICROBIT_COMPONENT_RUNNING)]

stop(s, i) ==
    LET s1 == IF Bit(s.obj[i].status, QDEC_STATUS_USING_SYSTEM_TICK)
              THEN system_timer_remove_component(s, i)
              ELSE s
    IN  IF Bit(s1.obj[i].status, MICROBIT_COMPONENT_RUNNING)
        THEN LET s2 == [s1 EXCEPT !.QDEC = TASKS_STOP(@)]
                 s3 == [s2 EXCEPT !.QDEC.ENABLE = 0]
             IN  [s3 EXCEPT !.obj[i].status = ClearBit(@, MICROBIT_COMPONENT_RUNNING)]
        ELSE s1

\* A first statement of poll() that reads the accumulators without clearing
\* them.
poll_TASKS_READCLRACC_withoutClear(s, i) ==
    [s EXCEPT !.QDEC.ACCREAD = ToU32(s.QDEC.ACC),
              !.QDEC.ACCDBLREAD = s.QDEC.ACCDBL]

\* poll(), access by access.  NRF_QDEC->TASKS_READCLRACC = 1:
poll_TASKS_READCLRACC(s, i) == [s EXCEPT !.QDEC = TASKS_READCLRACC(@)]

\* The value of (int32_t)NRF_QDEC->ACCREAD and of NRF_QDEC->ACCDBLREAD.
poll_ACCREAD(s) == AsInt32(s.QDEC.ACCREAD)
poll_ACCDBLREAD(s) == s.QDEC.ACCDBLREAD

\* position += acc: the store of word w of the sum, position being the value
\* loaded from the member.
poll_position_word(s, i, w, position, acc) ==
    [s EXCEPT !.obj[i].position[w] = Add64(position, acc)[w]]
\* position += acc: the store of both words.
poll_position(s, i, position, acc) ==
    poll_position_word(poll_position_word(s, i, "lo", position, acc),
                       i, "hi", position, acc)

\* A last statement of poll() that adds the double transitions without the
\* min(): errors wraps.
poll_errors_wrapping(s, i, errors, accdbl) ==
    [s EXCEPT !.obj[i].errors = ToU16(errors + accdbl)]

\* errors = min(UINT16_MAX, errors + accdbl): the store, errors being the value
\* loaded from the member.
poll_errors(s, i, errors, accdbl) ==
    [s EXCEPT !.obj[i].errors = ToU16(min(UINT16_MAX, errors + accdbl))]

\* poll() run from its first access to its last with nothing in between.
poll(s, i) ==
    LET s1 == poll_TASKS_READCLRACC(s, i)
        s2 == poll_position(s1, i, s1.obj[i].position, poll_ACCREAD(s1))
    IN  poll_errors(s2, i, s2.obj[i].errors, poll_ACCDBLREAD(s2))

\* this->position = position: the store of word w.
resetPosition_word(s, i, w, position) ==
    [s EXCEPT !.obj[i].position[w] = Int64(position)[w]]
\* resetPosition() run from its first store to its last with nothing in
\* between.
resetPosition(s, i, position) ==
    resetPosition_word(resetPosition_word(s, i, "lo", position), i, "hi", position)

getPosition(s, i) == s.obj[i].position
getErrors(s, i) == s.obj[i].errors

\* A destructor that does not call stop().
Destructor_withoutStop(s, i) == [s EXCEPT !.obj[i] = NoObject]

\* ~MicroBitQuadratureDecoder(): stop(), and the object is gone.
Destructor(s, i) == [stop(s, i) EXCEPT !.obj[i] = NoObject]

systemTick(s, i) == poll(s, i)

(***************************************************************************)
(* class MicroBitQDec                                                      *)
(***************************************************************************)
\* A QDecExtraConfig const* is NULL or <<the struct it points to>>.
NULL == <<>>
\* struct QDecExtraConfig with its default member values.
QDecExtraConfigDefaults ==
    [samplePeriod |-> 128, LEDDelay |-> 0, activeHighLED |-> TRUE, useDebounce |-> FALSE]

\* The member errors (uint32_t) is assigned by no constructor and no
\* initialiser: it holds the word the storage of the object held when the
\* object was constructed, which may be any uint32_t, and what poll() has
\* added to it since.  The field is kept as that pair, the word left
\* undetermined, so that a behaviour stands for the object in storage of
\* every content; plus is the uint32_t added so far.
Unassigned == [word |-> "storage", plus |-> ToU32(0)]
\* The uint32_t the field x holds when the storage held the word w.
ErrorsValue(x, w) == U32Sum(w, x.plus)

\* The constructor. It assigns no value to errors.
MicroBitQDec(s, i, LED_, cfg_) ==
    LET cfg == IF cfg_ = NULL THEN QDecExtraConfigDefaults ELSE cfg_[1]
    IN  [s EXCEPT !.obj[i] =
            [cls |-> "MicroBitQDec", status |-> 0,
             phaseA |-> PhaseAPin(i), phaseB |-> MicroBitPin(s, PhaseBPin(i)),
             LED |-> MicroBitPin(s, LED_),
             samplePeriod |-> cfg.samplePeriod, activeHighLED |-> cfg.activeHighLED,
             useDebounce |-> cfg.useDebounce, LEDDelay |-> cfg.LEDDelay,
             position |-> Int64(0), errors |-> Unassigned,
             useSystemTick |-> FALSE]]

QDec_enableSystemTick(s, i) ==
    IF ~s.obj[i].useSystemTick
    THEN LET s1 == [s EXCEPT !.obj[i].useSystemTick = TRUE]
         IN  IF Bit(s1.obj[i].status, MICROBIT_COMPONENT_RUNNING)
             THEN system_timer_add_component(s1, i)
             ELSE s1
    ELSE s

QDec_disableSystemTick(s, i) ==
    LET s1 == [s EXCEPT !.obj[i].useSystemTick = FALSE]
    IN  IF Bit(s1.obj[i].status, MICROBIT_COMPONENT_RUNNING)
        THEN system_timer_remove_component(s1, i)
        ELSE s1

QDec_start(s, i) ==
    LET o == s.obj[i]
        sampleper == FindSamplePer(7, o.samplePeriod)
    IN  IF s.QDEC.ENABLE # 0 \/ Bit(o.status, MICROBIT_COMPONENT_RUNNING)
        THEN [st |-> s, ret |-> MICROBIT_BUSY]
        ELSE
          LET s1 == [s EXCEPT
                       !.QDEC.SHORTS = 0,
                       !.QDEC.INTEN = 0,
                       !.QDEC.LEDPOL = IF o.activeHighLED THEN 1 ELSE 0,
                       !.QDEC.SAMPLEPER = ToU32(sampleper),
                       !.QDEC.REPORTPER = 7,
                       !.QDEC.PSELLED = ToU32(o.LED.name),
                       !.QDEC.PSELA = ToU32(o.phaseA),
                       !.QDEC.PSELB = ToU32(o.phaseB.name),
                       !.QDEC.DBFEN = IF o.useDebounce THEN 1 ELSE 0,
                       !.QDEC.LEDPRE = o.LEDDelay]
              s2 == StopPinEvents(s1, i)
              s3 == [s2 EXCEPT !.QDEC = TASKS_READCLRACC(@)]
              s4 == [s3 EXCEPT !.QDEC.ENABLE = 1]
              s5 == IF s4.obj[i].useSystemTick
                    THEN system_timer_remove_component(s4, i)
                    ELSE s4
              s6 == [s5 EXCEPT !.QDEC = TASKS_START(@)]
              s7 == [s6 EXCEPT !.obj[i].status = SetBit(@, MICROBIT_COMPONENT_RUNNING)]
          IN  [st |-> s7, ret |-> MICROBIT_OK]

\* A MicroBitQDec::stop() that stops and disables the peripheral whether or
\* not this object is the one running.
QDec_stop_unguarded(s, i) ==
    LET s2 == [s EXCEPT !.QDEC = TASKS_STOP(@)]
        s3 == [s2 EXCEPT !.QDEC.ENABLE = 0]
        s1 == [s3 EXCEPT !.obj[i].status = ClearBit(@, MICROBIT_COMPONENT_RUNNING)]
    IN  IF s1.obj[i].useSystemTick
        THEN system_timer_remove_component(s1, i)
        ELSE s1

QDec_stop(s, i) ==
    LET s1 == IF Bit(s.obj[i].status, MICROBIT_COMPONENT_RUNNING)
              THEN LET s2 == [s EXCEPT !.QDEC = TASKS_STOP(@)]
                       s3 == [s2 EXCEPT !.QDEC.ENABLE = 0]
                   IN  [s3 EXCEPT !.obj[i].status =
                                      ClearBit(@, MICROBIT_COMPONENT_RUNNING)]
              ELSE s
    IN  IF s1.obj[i].useSystemTick
        THEN system_timer_remove_component(s1, i)
        ELSE s1

\* MicroBitQDec::poll(), access by access.
QDec_poll_TASKS_READCLRACC(s, i) == [s EXCEPT !.QDEC = TASKS_READCLRACC(@)]

QDec_poll_position_word(s, i, w, position, acc) ==
    [s EXCEPT !.obj[i].position[w] = Add64(position, acc)[w]]
QDec_poll_position(s, i, position, acc) ==
    QDec_poll_position_word(QDec_poll_position_word(s, i, "lo", position, acc),
                            i, "hi", position, acc)

\* errors += accdbl in uint32_t: the store, errors being the value loaded from
\* the member.
QDec_poll_errors(s, i, errors, accdbl) ==
    [s EXCEPT !.obj[i].errors = [errors EXCEPT !.plus = U32Add(@, accdbl)]]

\* MicroBitQDec::poll() run from its first access to its last with nothing in
\* between.
QDec_poll(s, i) ==
    LET s1 == QDec_poll_TASKS_READCLRACC(s, i)
        s2 == QDec_poll_position(s1, i, s1.obj[i].position, poll_ACCREAD(s1))
    IN  QDec_poll_errors(s2, i, s2.obj[i].errors, poll_ACCDBLREAD(s2))

QDec_resetPosition_word(s, i, w, position) ==
    [s EXCEPT !.obj[i].position[w] = Int64(position)[w]]
QDec_resetPosition(s, i, position) ==
    QDec_resetPosition_word(QDec_resetPosition_word(s, i, "lo", position),
                            i, "hi", position)

QDec_getPosition(s, i) == s.obj[i].position
\* getErrors(): the field; its uint32_t value for storage word w is
\* ErrorsValue(QDec_getErrors(s, i), w).
QDec_getErrors(s, i) == s.obj[i].errors

\* ~MicroBitQDec(): stop(), and the object is gone.
QDec_Destructor(s, i) == [QDec_stop(s, i) EXCEPT !.obj[i] = NoObject]

QDec_systemTick(s, i) == QDec_poll(s, i)

(***************************************************************************)
(* Actions.  drained[i] keeps, for object i, the position and errors its    *)
(* polls started from (p0, e0), the sums of what the hardware accumulators *)
(* held when each poll read them (d, e), and whether a systemTick() has    *)
(* run while a poll() of the application was in progress (overlap).  The   *)
(* record is kept in the behaviours that begin with rec set, and its sums  *)
(* for polls that follow one another, no longer once two have overlapped.  *)
(***************************************************************************)
Running(i) == Alive(i) /\ Bit(obj[i].status, MICROBIT_COMPONENT_RUNNING)
UsingSystemTick(i) ==
    /\ Alive(i)
    /\ IF obj[i].cls = "MicroBitQDec" THEN obj[i].useSystemTick
       ELSE Bit(obj[i].status, QDEC_STATUS_USING_SYSTEM_TICK)
Registered(i) == timer[i] > 0

NoDrain == [rec |-> TRUE, p0 |-> 0, e0 |-> 0, d |-> 0, e |-> 0, overlap |-> FALSE]
NoRecord == [NoDrain EXCEPT !.rec = FALSE]
\* The sums of record h are being kept.
Kept(h) == h.rec /\ ~h.overlap
\* The record of an object that is constructed or destroyed.
Fresh(h) == IF h.rec THEN NoDrain ELSE h
DrainAfterPoll(i) ==
    IF Kept(drained[i])
    THEN [drained EXCEPT ![i].d = @ + QDEC.ACC, ![i].e = @ + QDEC.ACCDBL]
    ELSE drained
\* The record h of an object one of whose polls has overlapped another.
Overlapped(h) == [h EXCEPT !.p0 = 0, !.e0 = 0, !.d = 0, !.e = 0, !.overlap = TRUE]

\* What a call in progress holds outside memory: acc and accdbl, the values
\* read from ACCREAD and ACCDBLREAD; position and errors (qerrors in
\* MicroBitQDec), the values loaded from the members (in resetPosition(), the
\* argument); the words of position the call has loaded and those it has
\* stored; whether poll() has yet to load errors ("-"), has loaded it or has
\* stored it; and whether start() or stop() has yet to store status.
NoLocals ==
    [acc |-> 0, accdbl |-> 0, position |-> Int64(0), errors |-> 0,
     qerrors |-> Unassigned, positionLoaded |-> {}, positionStored |-> {},
     errorsIs |-> "-", statusIs |-> "-"]

\* No call taken step by step is in progress.
Idle == [self |-> "none", op |-> "none", at |-> "none", loc |-> NoLocals]

\* A poll() of the application on object i is in progress.
InPoll(i) == pc.self = i /\ pc.op = "poll"
\* The word of an int64_t that is not w.
Other(w) == IF w = "hi" THEN "lo" ELSE "hi"
\* The words of position a store of word w takes its value from: the low
\* word of a sum comes from the low word, the high word from both.
Needs(w) == IF w = "lo" THEN {"lo"} ELSE Words

\* drained after systemTick() of object i: the tick's poll has read the
\* accumulators, and it has run inside a poll() of the application if one is
\* in progress.
DrainAfterTick(i) ==
    [j \in Inst |->
        IF pc.op = "poll" /\ j \in {i, pc.self} /\ drained[j].rec
        THEN Overlapped(drained[j])
        ELSE DrainAfterPoll(i)[j]]

Construct(i, LED_, LEDDelay_, flags) ==
    /\ i \in QDInst /\ ~Alive(i)
    /\ Commit(MicroBitQuadratureDecoder(State, i, LED_, LEDDelay_, flags))
    /\ Returned("MicroBitQuadratureDecoder", i, flags, VOID)
    /\ drained' = [drained EXCEPT ![i] = Fresh(@)]
    /\ UNCHANGED <<nSamples, pc>>

ConstructNoLED(i, flags) ==
    /\ i \in QDInst /\ ~Alive(i)
    /\ Commit(MicroBitQuadratureDecoderNoLED(State, i, flags))
    /\ Returned("MicroBitQuadratureDecoder", i, flags, VOID)
    /\ drained' = [drained EXCEPT ![i] = Fresh(@)]
    /\ UNCHANGED <<nSamples, pc>>

Call_enableSystemTick(i) ==
    /\ i \in QDInst /\ Alive(i)
    /\ Commit(enableSystemTick(State, i))
    /\ Returned("enableSystemTick", i, 0, VOID)
    /\ UNCHANGED <<nSamples, drained, pc>>

Call_disableSystemTick(i) ==
    /\ i \in QDInst /\ Alive(i)
    /\ Commit(disableSystemTick(State, i))
    /\ Returned("disableSystemTick", i, 0, VOID)
    /\ UNCHANGED <<nSamples, drained, pc>>

Call_setSamplePeriodUs(i, period) ==
    /\ i \in QDInst /\ Alive(i)
    /\ LET r == setSamplePeriodUs(State, i, period)
       IN  Commit(r.st) /\ Returned("setSamplePeriodUs", i, period, r.ret)
    /\ UNCHANGED <<nSamples, drained, pc>>

Call_start(i) ==
    /\ i \in QDInst /\ Alive(i)
    /\ LET r == start(State, i)
       IN  Commit(r.st) /\ Returned("start", i, 0, r.ret)
    /\ UNCHANGED <<nSamples, drained, pc>>

Call_stop(i) ==
    /\ i \in QDInst /\ Alive(i)
    /\ Commit(stop(State, i))
    /\ Returned("stop", i, 0, VOID)
    /\ UNCHANGED <<nSamples, drained, pc>>

\* A call taken step by step: pc names the object, the method and the
\* statement (in poll(), the register access) the call is about to execute.
At(i, op, where) == pc.self = i /\ pc.op = op /\ pc.at = where

\* One statement of a call: from label `from`, leaving state s, to label `to`.
Step(i, op, from, s, to) ==
    /\ At(i, op, from)
    /\ Commit(s)
    /\ pc' = [pc EXCEPT !.at = to]
    /\ UNCHANGED <<call, nSamples, drained>>

\* The last statement of a call, which returns r.
Return(i, op, from, s, r) ==
    /\ At(i, op, from)
    /\ Commit(s)
    /\ pc' = Idle
    /\ Returned(op, i, 0, r)
    /\ UNCHANGED <<nSamples, drained>>

\* A store to the member status, which is not volatile, that the call in
\* progress makes ahead of the volatile register writes the source puts
\* before it: a build is free to order the two kinds of access either way.
StoreEarly(i, op, s) ==
    /\ pc.self = i /\ pc.op = op /\ pc.loc.statusIs = "-"
    /\ Commit(s)
    /\ pc' = [pc EXCEPT !.loc.statusIs = "stored"]
    /\ UNCHANGED <<call, nSamples, drained>>

\* One register write of a call: from label `from`, leaving state s, to the
\* label `to` of the store of status and, when that store has been made
\* already, past it to label `past`.
StepPast(i, op, from, s, to, past) ==
    /\ At(i, op, from)
    /\ Commit(s)
    /\ pc' = IF pc.loc.statusIs = "stored"
             THEN [pc EXCEPT !.at = past, !.loc.statusIs = "-"]
             ELSE [pc EXCEPT !.at = to]
    /\ UNCHANGED <<call, nSamples, drained>>

\* The call of method op of object i begins: its first statement is at `to`.
Enter(i, op, to) ==
    /\ pc = Idle /\ Alive(i)
    /\ pc' = [self |-> i, op |-> op, at |-> to, loc |-> NoLocals]
    /\ UNCHANGED <<obj, QDEC, timer, pinEvent, call, nSamples, drained>>

\* An access of the call in progress that changes only what the call holds
\* outside memory.
Local(l) ==
    /\ pc' = [pc EXCEPT !.loc = l]
    /\ UNCHANGED <<obj, QDEC, timer, pinEvent, call, nSamples, drained>>

(***************************************************************************)
(* poll() called by the application, access by access; the dispatcher's    *)
(* tick is an interrupt and may come between any two accesses.  The three  *)
(* register accesses are volatile and happen in the order of the source;   *)
(* pc.at names the next of them.  The accesses to the members position and *)
(* errors are ordinary loads and stores, which a build places where the    *)
(* data flow allows (the builds differ: one loads errors before it reads   *)
(* ACCDBLREAD, another after; one stores position before it reads          *)
(* ACCDBLREAD, another after): a member is loaded at any point before its  *)
(* store, position is stored once ACCREAD has been read and errors once    *)
(* ACCDBLREAD has been read.  position is an int64_t and the processor has *)
(* 32-bit loads and stores: each of its two words is loaded and stored on  *)
(* its own, in either order, the low word of the sum from the low word     *)
(* loaded and the high word from both.  A value no later access uses is    *)
(* dropped.                                                                *)
(***************************************************************************)
Poll_enter(i) == i \in QDInst /\ Enter(i, "poll", "TASKS_READCLRACC")

Poll_TASKS_READCLRACC(i) ==
    /\ i \in QDInst /\ At(i, "poll", "TASKS_READCLRACC")
    /\ Commit(poll_TASKS_READCLRACC(State, i))
    /\ pc' = [pc EXCEPT !.at = "ACCREAD"]
    /\ drained' = DrainAfterPoll(i)
    /\ UNCHANGED <<call, nSamples>>

Poll_ACCREAD(i) ==
    /\ i \in QDInst /\ At(i, "poll", "ACCREAD")
    /\ pc' = [pc EXCEPT !.at = "ACCDBLREAD", !.loc.acc = poll_ACCREAD(State)]
    /\ UNCHANGED <<obj, QDEC, timer, pinEvent, call, nSamples, drained>>

Poll_ACCDBLREAD(i) ==
    /\ i \in QDInst /\ At(i, "poll", "ACCDBLREAD")
    /\ pc' = [pc EXCEPT !.at = "return", !.loc.accdbl = poll_ACCDBLREAD(State)]
    /\ UNCHANGED <<obj, QDEC, timer, pinEvent, call, nSamples, drained>>

Poll_load_position(i) ==
    /\ i \in QDInst /\ InPoll(i)
    /\ \E w \in Words \ pc.loc.positionLoaded :
           Local([pc.loc EXCEPT !.positionLoaded = @ \cup {w},
                                !.position[w] = getPosition(State, i)[w]])

Poll_position(i) ==
    /\ i \in QDInst /\ InPoll(i)
    /\ pc.at \in {"ACCDBLREAD", "return"}
    /\ \E w \in Words \ pc.loc.positionStored :
           /\ Needs(w) \subseteq pc.loc.positionLoaded
           /\ Commit(poll_position_word(State, i, w, pc.loc.position, pc.loc.acc))
           /\ pc' = IF pc.loc.positionStored = {Other(w)}
                    THEN [pc EXCEPT !.loc.positionStored = Words,
                                    !.loc.position = Int64(0), !.loc.acc = 0]
                    ELSE [pc EXCEPT !.loc.positionStored = {w}]
    /\ UNCHANGED <<call, nSamples, drained>>

Poll_load_errors(i) ==
    /\ i \in QDInst /\ InPoll(i) /\ pc.loc.errorsIs = "-"
    /\ Local([pc.loc EXCEPT !.errorsIs = "loaded", !.errors = getErrors(State, i)])

Poll_errors(i) ==
    /\ i \in QDInst /\ InPoll(i) /\ pc.loc.errorsIs = "loaded"
    /\ pc.at = "return"
    /\ Commit(poll_errors(State, i, pc.loc.errors, pc.loc.accdbl))
    /\ pc' = [pc EXCEPT !.loc.errorsIs = "stored", !.loc.errors = 0,
                        !.loc.accdbl = 0]
    /\ UNCHANGED <<call, nSamples, drained>>

Poll_return(i) ==
    /\ i \in QDInst /\ pc.loc.positionStored = Words /\ pc.loc.errorsIs = "stored"
    /\ Return(i, "poll", "return", State, VOID)

\* resetPosition(v) called by the application: the store of one word of
\* position, then the store of the other word and the return.  The order of
\* the two stores is the build's; the tick may come between them.
ResetPosition_store(i, v) ==
    /\ i \in QDInst /\ Alive(i) /\ pc = Idle
    /\ \E w \in Words :
           /\ Commit(resetPosition_word(State, i, w, v))
           /\ pc' = [self |-> i, op |-> "resetPosition", at |-> Other(w),
                     loc |-> [NoLocals EXCEPT !.position = Int64(v)]]
    /\ UNCHANGED <<call, nSamples, drained>>

ResetPosition_return(i, v) ==
    /\ i \in QDInst /\ pc.self = i /\ pc.op = "resetPosition"
    /\ pc.loc.position = Int64(v)
    /\ Commit(resetPosition_word(State, i, pc.at, v))
    /\ pc' = Idle
    /\ Returned("resetPosition", i, v, VOID)
    /\ drained' = IF Kept(drained[i])
                  THEN [drained EXCEPT ![i].p0 = v, ![i].d = 0]
                  ELSE drained
    /\ UNCHANGED nSamples

Call_resetPosition(i, v) == ResetPosition_store(i, v) \/ ResetPosition_return(i, v)

Destroy(i) ==
    /\ i \in QDInst /\ Alive(i)
    /\ Commit(Destructor(State, i))
    /\ Returned("~MicroBitQuadratureDecoder", i, 0, VOID)
    /\ drained' = [drained EXCEPT ![i] = Fresh(@)]
    /\ UNCHANGED <<nSamples, pc>>

\* The dispatcher calls systemTick() of a component it holds.
Tick(i) ==
    /\ i \in QDInst /\ Alive(i) /\ Registered(i)
    /\ Commit(systemTick(State, i))
    /\ Returned("systemTick", i, 0, VOID)
    /\ drained' = DrainAfterTick(i)
    /\ UNCHANGED <<nSamples, pc>>

QDec_Construct(i, LED_, cfg) ==
    /\ i \in QDecInst /\ ~Alive(i)
    /\ Commit(MicroBitQDec(State, i, LED_, cfg))
    /\ Returned("MicroBitQDec", i, 0, VOID)
    /\ drained' = [drained EXCEPT ![i] = Fresh(@)]
    /\ UNCHANGED <<nSamples, pc>>

Call_QDec_enableSystemTick(i) ==
    /\ i \in QDecInst /\ Alive(i)
    /\ Commit(QDec_enableSystemTick(State, i))
    /\ Returned("enableSystemTick", i, 0, VOID)
    /\ UNCHANGED <<nSamples, drained, pc>>

Call_QDec_disableSystemTick(i) ==
    /\ i \in QDecInst /\ Alive(i)
    /\ Commit(QDec_disableSystemTick(State, i))
    /\ Returned("disableSystemTick", i, 0, VOID)
    /\ UNCHANGED <<nSamples, drained, pc>>

Call_QDec_start(i) ==
    /\ i \in QDecInst /\ Alive(i)
    /\ LET r == QDec_start(State, i)
       IN  Commit(r.st) /\ Returned("start", i, 0, r.ret)
    /\ UNCHANGED <<nSamples, drained, pc>>

Call_QDec_stop(i) ==
    /\ i \in QDecInst /\ Alive(i)
    /\ Commit(QDec_stop(State, i))
    /\ Returned("stop", i, 0, VOID)
    /\ UNCHANGED <<nSamples, drained, pc>>

\* MicroBitQDec::poll() called by the application, access by access.
QDec_Poll_enter(i) == i \in QDecInst /\ Enter(i, "poll", "TASKS_READCLRACC")

QDec_Poll_TASKS_READCLRACC(i) ==
    /\ i \in QDecInst /\ At(i, "poll", "TASKS_READCLRACC")
    /\ Commit(QDec_poll_TASKS_READCLRACC(State, i))
    /\ pc' = [pc EXCEPT !.at = "ACCREAD"]
    /\ drained' = DrainAfterPoll(i)
    /\ UNCHANGED <<call, nSamples>>

QDec_Poll_ACCREAD(i) ==
    /\ i \in QDecInst /\ At(i, "poll", "ACCREAD")
    /\ pc' = [pc EXCEPT !.at = "ACCDBLREAD", !.loc.acc = poll_ACCREAD(State)]
    /\ UNCHANGED <<obj, QDEC, timer, pinEvent, call, nSamples, drained>>

QDec_Poll_ACCDBLREAD(i) ==
    /\ i \in QDecInst /\ At(i, "poll", "ACCDBLREAD")
    /\ pc' = [pc EXCEPT !.at = "return", !.loc.accdbl = poll_ACCDBLREAD(State)]
    /\ UNCHANGED <<obj, QDEC, timer, pinEvent, call, nSamples, drained>>

QDec_Poll_load_position(i) ==
    /\ i \in QDecInst /\ InPoll(i)
    /\ \E w \in Words \ pc.loc.positionLoaded :
           Local([pc.loc EXCEPT !.positionLoaded = @ \cup {w},
                                !.position[w] = QDec_getPosition(State, i)[w]])

QDec_Poll_position(i) ==
    /\ i \in QDecInst /\ InPoll(i)
    /\ pc.at \in {"ACCDBLREAD", "return"}
    /\ \E w \in Words \ pc.loc.positionStored :
           /\ Needs(w) \subseteq pc.loc.positionLoaded
           /\ Commit(QDec_poll_position_word(State, i, w, pc.loc.position, pc.loc.acc))
           /\ pc' = IF pc.loc.positionStored = {Other(w)}
                    THEN [pc EXCEPT !.loc.positionStored = Words,
                                    !.loc.position = Int64(0), !.loc.acc = 0]
                    ELSE [pc EXCEPT !.loc.positionStored = {w}]
    /\ UNCHANGED <<call, nSamples, drained>>

QDec_Poll_load_errors(i) ==
    /\ i \in QDecInst /\ InPoll(i) /\ pc.loc.errorsIs = "-"
    /\ Local([pc.loc EXCEPT !.errorsIs = "loaded",
                            !.qerrors = QDec_getErrors(State, i)])

QDec_Poll_errors(i) ==
    /\ i \in QDecInst /\ InPoll(i) /\ pc.loc.errorsIs = "loaded"
    /\ pc.at = "return"
    /\ Commit(QDec_poll_errors(State, i, pc.loc.qerrors, pc.loc.accdbl))
    /\ pc' = [pc EXCEPT !.loc.errorsIs = "stored", !.loc.qerrors = Unassigned,
                        !.loc.accdbl = 0]
    /\ UNCHANGED <<call, nSamples, drained>>

QDec_Poll_return(i) ==
    /\ i \in QDecInst /\ pc.loc.positionStored = Words /\ pc.loc.errorsIs = "stored"
    /\ Return(i, "poll", "return", State, VOID)

\* MicroBitQDec::resetPosition(v) called by the application, store by store.
QDec_ResetPosition_store(i, v) ==
    /\ i \in QDecInst /\ Alive(i) /\ pc = Idle
    /\ \E w \in Words :
           /\ Commit(QDec_resetPosition_word(State, i, w, v))
           /\ pc' = [self |-> i, op |-> "resetPosition", at |-> Other(w),
                     loc |-> [NoLocals EXCEPT !.position = Int64(v)]]
    /\ UNCHANGED <<call, nSamples, drained>>

QDec_ResetPosition_return(i, v) ==
    /\ i \in QDecInst /\ pc.self = i /\ pc.op = "resetPosition"
    /\ pc.loc.position = Int64(v)
    /\ Commit(QDec_resetPosition_word(State, i, pc.at, v))
    /\ pc' = Idle
    /\ Returned("resetPosition", i, v, VOID)
    /\ drained' = IF Kept(drained[i])
                  THEN [drained EXCEPT ![i].p0 = v, ![i].d = 0]
                  ELSE drained
    /\ UNCHANGED nSamples

Call_QDec_resetPosition(i, v) ==
    QDec_ResetPosition_store(i, v) \/ QDec_ResetPosition_return(i, v)

QDec_Destroy(i) ==
    /\ i \in QDecInst /\ Alive(i)
    /\ Commit(QDec_Destructor(State, i))
    /\ Returned("~MicroBitQDec", i, 0, VOID)
    /\ drained' = [drained EXCEPT ![i] = Fresh(@)]
    /\ UNCHANGED <<nSamples, pc>>

QDec_Tick(i) ==
    /\ i \in QDecInst /\ Alive(i) /\ Registered(i)
    /\ Commit(QDec_systemTick(State, i))
    /\ Returned("systemTick", i, 0, VOID)
    /\ drained' = DrainAfterTick(i)
    /\ UNCHANGED <<nSamples, pc>>

\* The accesses of a poll() of the application on object i.
Poll(i) ==
    \/ Poll_enter(i)
    \/ Poll_TASKS_READCLRACC(i)
    \/ Poll_ACCREAD(i)
    \/ Poll_ACCDBLREAD(i)
    \/ Poll_load_position(i)
    \/ Poll_position(i)
    \/ Poll_load_errors(i)
    \/ Poll_errors(i)
    \/ Poll_return(i)

QDec_Poll(i) ==
    \/ QDec_Poll_enter(i)
    \/ QDec_Poll_TASKS_READCLRACC(i)
    \/ QDec_Poll_ACCREAD(i)
    \/ QDec_Poll_ACCDBLREAD(i)
    \/ QDec_Poll_load_position(i)
    \/ QDec_Poll_position(i)
    \/ QDec_Poll_load_errors(i)
    \/ QDec_Poll_errors(i)
    \/ QDec_Poll_return(i)

\* The enabled, started peripheral samples the encoder once.
HwSample(d, e, limit) ==
    /\ QDEC.ENABLE = 1 /\ QDEC.started
    /\ nSamples < limit
    /\ QDEC' = HwAccumulate(QDEC, d, e)
    /\ nSamples' = nSamples + 1
    /\ UNCHANGED <<obj, timer, pinEvent, call, drained, pc>>

(***************************************************************************)
(* Spec: the calls of two MicroBitQuadratureDecoder objects, from the state *)
(* in which no object has been constructed and the peripheral is in reset.  *)
(* The application makes one call at a time; its poll() is taken access by  *)
(* access, and the dispatcher's tick and the hardware's sampling come       *)
(* between any two accesses of it and between any two calls.                *)
(***************************************************************************)
NoCall == [op |-> "none", self |-> "none", arg |-> 0, ret |-> VOID]
\* No object has been constructed and the peripheral is in reset.
InitProgram ==
    /\ obj = [i \in Inst |-> NoObject]
    /\ QDEC = QDECReset
    /\ timer = [i \in Inst |-> 0]
    /\ pinEvent = [n \in PinNames |-> MICROBIT_PIN_EVENT_NONE]
    /\ call = NoCall
    /\ nSamples = 0
    /\ pc = Idle

Init == InitProgram /\ drained = [i \in Inst |-> NoRecord]
\* The same state, for the behaviours in which drained is kept.
InitRecording == InitProgram /\ drained = [i \in Inst |-> NoDrain]

\* Constructor flags: the default, and periodic polling requested together
\* with the MICROBIT_COMPONENT_RUNNING bit.
FlagArgs == {0, QDEC_STATUS_USING_SYSTEM_TICK + MICROBIT_COMPONENT_RUNNING}
ResetArgs == {5}
\* A sample: one step either way, or a double transition.
Samples == {<<1, 0>>, <<-1, 0>>, <<0, 1>>}
\* The arguments of Spec, where two objects live side by side: resetPosition
\* to zero, and a sample that is a step forward.
ZeroArgs == {0}
StepSamples == {<<1, 0>>}
\* A sample that is a step forward or a double transition.
ForwardSamples == {<<1, 0>>, <<0, 1>>}

Next ==
    \/ \E i \in QDInst, flags \in FlagArgs :
           pc = Idle /\ Construct(i, LEDPinOf(i), 0, flags)
    \/ \E i \in QDInst : pc = Idle /\ Call_enableSystemTick(i)
    \/ \E i \in QDInst : pc = Idle /\ Call_disableSystemTick(i)
    \/ \E i \in QDInst : pc = Idle /\ Call_start(i)
    \/ \E i \in QDInst : pc = Idle /\ Call_stop(i)
    \/ \E i \in QDInst : Poll(i)
    \/ \E i \in QDInst, v \in ZeroArgs : Call_resetPosition(i, v)
    \/ \E i \in QDInst : pc = Idle /\ Destroy(i)
    \/ \E i \in QDInst : Tick(i)
    \/ \E x \in StepSamples : HwSample(x[1], x[2], MaxSamples)

Spec == Init /\ [][Next]_vars

(***************************************************************************)
(* Claims checked under Spec.                                              *)
(***************************************************************************)

\* C1: between whole calls, at most one object has MICROBIT_COMPONENT_RUNNING
\* set, and an object is running only if NRF_QDEC->ENABLE is non-zero.
C1_AtMostOneRunning ==
    /\ Cardinality({i \in Inst : Running(i)}) <= 1
    /\ \A i \in Inst : Running(i) => QDEC.ENABLE # 0

\* One object is running and another, not running, has just returned from stop().
C1_Witness ==
    \E i, j \in QDInst :
        /\ i # j /\ Running(i) /\ Alive(j)
        /\ call.op = "stop" /\ call.self = j

\* C2: enableSystemTick() on an object that is not running, followed by a
\* start() that succeeds, leaves the object registered exactly once.
C2_RegisteredOnceAfterStart ==
    [][\A i \in QDInst :
          ( /\ call.op = "enableSystemTick" /\ call.self = i
            /\ ~Running(i)
            /\ Call_start(i)
            /\ call'.ret = MICROBIT_OK )
          => timer'[i] = 1]_vars

\* C3: start() with NRF_QDEC->ENABLE non-zero, or on an object that is already
\* running, returns MICROBIT_BUSY and changes no object, no register, no
\* registration and no pin.
C3_BusyStartChangesNothing ==
    [][\A i \in QDInst :
          (Call_start(i) /\ (QDEC.ENABLE # 0 \/ Running(i)))
          => ( /\ call'.ret = MICROBIT_BUSY
               /\ UNCHANGED <<obj, QDEC, timer, pinEvent>> )]_vars

\* start() has returned MICROBIT_BUSY on one object while another is running.
C3_Witness ==
    /\ call.op = "start" /\ call.ret = MICROBIT_BUSY
    /\ \E j \in QDInst : j # call.self /\ Running(j)

\* C4: between whole calls, an object is registered with the dispatcher only
\* if it is running and has QDEC_STATUS_USING_SYSTEM_TICK set.
C4_RegisteredOnlyWhileRunningAndPolling ==
    \A i \in Inst : Registered(i) => (Running(i) /\ UsingSystemTick(i))

\* The dispatcher has just called systemTick() of a registered object.
C4_Witness ==
    \E i \in QDInst : Registered(i) /\ call.op = "systemTick" /\ call.self = i

(***************************************************************************)
(* SpecTick: the calls of Spec on objects constructed with the default     *)
(* flags, so that periodic polling is requested by enableSystemTick()      *)
(* alone.  FairSpec adds the dispatcher's guarantee that a component it    *)
(* holds has its systemTick() called again and again.                      *)
(***************************************************************************)
NextTick ==
    \/ \E i \in QDInst : pc = Idle /\ Construct(i, LEDPinOf(i), 0, 0)
    \/ \E i \in QDInst : pc = Idle /\ Call_enableSystemTick(i)
    \/ \E i \in QDInst : pc = Idle /\ Call_disableSystemTick(i)
    \/ \E i \in QDInst : pc = Idle /\ Call_start(i)
    \/ \E i \in QDInst : pc = Idle /\ Call_stop(i)
    \/ \E i \in QDInst : Poll(i)
    \/ \E i \in QDInst, v \in ResetArgs : Call_resetPosition(i, v)
    \/ \E i \in QDInst : pc = Idle /\ Destroy(i)
    \/ \E i \in QDInst : Tick(i)
    \/ \E x \in Samples : HwSample(x[1], x[2], MaxSamples)

SpecTick == Init /\ [][NextTick]_vars

FairSpec == SpecTick /\ \A i \in QDInst : WF_vars(Tick(i))

\* C5: on a running object, enableSystemTick() returns with the object
\* registered and disableSystemTick() returns with it not registered.
C5_EnableDisableTakeEffect ==
    \A i \in QDInst :
        (Running(i) /\ call.self = i) =>
            /\ call.op = "enableSystemTick" => Registered(i)
            /\ call.op = "disableSystemTick" => ~Registered(i)

\* The hardware accumulators hold counts no poll has read yet.
Pending == QDEC.ACC # 0 \/ QDEC.ACCDBL # 0

\* C6: with a fair dispatcher, counts pending in the hardware of a running
\* object that has periodic polling enabled are eventually drained by a
\* systemTick() of that object (unless the object is stopped, or polling is
\* disabled, or a poll() of the application drains them first).
C6_TickDrainsPending ==
    \A i \in QDInst :
        (Running(i) /\ UsingSystemTick(i) /\ Pending)
        ~> ( \/ (call.op = "systemTick" /\ call.self = i)
             \/ ~Pending
             \/ ~(Running(i) /\ UsingSystemTick(i)) )

(***************************************************************************)
(* SpecQDec: the MicroBitQDec object, polled by the application access by  *)
(* access and by the dispatcher, beside one MicroBitQuadratureDecoder that *)
(* is constructed, started and stopped on the same peripheral.             *)
(***************************************************************************)
\* QDecExtraConfig arguments: none, a period below the 128 us floor, and a
\* period between two hardware levels.
CfgArgs ==
    {NULL,
     <<[samplePeriod |-> 100, LEDDelay |-> 2, activeHighLED |-> FALSE,
        useDebounce |-> TRUE]>>,
     <<[samplePeriod |-> 500, LEDDelay |-> 0, activeHighLED |-> TRUE,
        useDebounce |-> FALSE]>>}

NextQDec ==
    \/ \E i \in QDecInst, cfg \in CfgArgs :
           pc = Idle /\ QDec_Construct(i, NC, cfg)
    \/ \E i \in QDecInst : pc = Idle /\ Call_QDec_enableSystemTick(i)
    \/ \E i \in QDecInst : pc = Idle /\ Call_QDec_disableSystemTick(i)
    \/ \E i \in QDecInst : pc = Idle /\ Call_QDec_start(i)
    \/ \E i \in QDecInst : pc = Idle /\ Call_QDec_stop(i)
    \/ \E i \in QDecInst : QDec_Poll(i)
    \/ \E i \in QDecInst, v \in ResetArgs :
           Call_QDec_resetPosition(i, v)
    \/ \E i \in QDecInst : pc = Idle /\ QDec_Destroy(i)
    \/ \E i \in QDecInst : QDec_Tick(i)
    \/ \E flags \in FlagArgs : pc = Idle /\ ConstructNoLED("qd1", flags)
    \/ pc = Idle /\ Call_start("qd1")
    \/ pc = Idle /\ Call_stop("qd1")
    \/ pc = Idle /\ Destroy("qd1")
    \/ \E x \in ForwardSamples : HwSample(x[1], x[2], MaxSamples)

SpecQDec == InitRecording /\ [][NextQDec]_vars

\* The level the sample-period rule selects for period p: the largest k in
\* 0..7 with 128 * 2^k <= p, and 0 when there is none.
Level(p) ==
    IF \E k \in 0..7 : 128 * (2 ^ k) <= p
    THEN CHOOSE k \in 0..7 :
             /\ 128 * (2 ^ k) <= p
             /\ \A j \in 0..7 : 128 * (2 ^ j) <= p => j <= k
    ELSE 0

\* C7: the value a successful start() has written to SAMPLEPER is the level
\* of the object's configured period, a value in 0..7.
C7_SamplePerIsLevelOfPeriod ==
    \A i \in Inst :
        (call.op = "start" /\ call.self = i /\ call.ret = MICROBIT_OK)
        => QDEC.SAMPLEPER = ToU32(Level(obj[i].samplePeriod))

\* Words of storage at which a claim about the value of
\* MicroBitQDec::errors is evaluated: 0, 0x33333333 and 0xFFFFFFFF.  What
\* fails for one of them fails for the object constructed in such storage.
StorageWords == {ToU32(0), <<13107, 13107>>, ToU32(-1)}

\* C9: in both classes the value of getErrors() never decreases during the
\* life of an object whose polls follow one another, whatever word the
\* storage of a MicroBitQDec held.
C9_ErrorsNeverDecrease ==
    [][\A i \in Inst :
          (Alive(i) /\ Alive(i)' /\ ~drained'[i].overlap) =>
              IF obj[i].cls = "MicroBitQDec"
              THEN \A w \in StorageWords :
                       U32Leq(ErrorsValue(QDec_getErrors(State, i), w),
                              ErrorsValue(QDec_getErrors(State', i), w))
              ELSE getErrors(State, i) <= getErrors(State', i)]_vars

(***************************************************************************)
(* SpecPoll: the polls of one running MicroBitQuadratureDecoder, by the     *)
(* application access by access and by the dispatcher, which may tick       *)
(* between any two accesses; drained["qd1"].overlap tells whether it has.   *)
(* The initial states are states of an object that has been running for a   *)
(* while: constructed and started by the code above, with a position, an    *)
(* error count and accumulator contents drawn from the sets below.          *)
(***************************************************************************)
\* A position, the contents of ACC, an error count and the contents of
\* ACCDBL: a sum that borrows from the high word of position with an error
\* count that saturates, and a sum that carries into the high word with an
\* error count that does not.
PollInputs == {<<0, -1024, 65530, 15>>, <<-3, 1023, 0, 15>>}
\* A sample while the polls are watched: a step back or a double transition.
PollSamples == {<<-1, 0>>, <<0, 1>>}

PollBase ==
    LET s0 == [obj |-> [i \in Inst |-> NoObject], QDEC |-> QDECReset,
               timer |-> [i \in Inst |-> 0],
               pinEvent |-> [n \in PinNames |-> MICROBIT_PIN_EVENT_NONE]]
        s1 == MicroBitQuadratureDecoder(s0, "qd1", LEDPinOf("qd1"), 0, 0)
    IN  start(s1, "qd1").st

InitPoll ==
    \E x \in PollInputs :
        /\ obj = [PollBase.obj EXCEPT !["qd1"].position = Int64(x[1]),
                                      !["qd1"].errors = x[3]]
        /\ QDEC = [PollBase.QDEC EXCEPT !.ACC = x[2], !.ACCDBL = x[4]]
        /\ timer = PollBase.timer
        /\ pinEvent = PollBase.pinEvent
        /\ call = NoCall
        /\ nSamples = 0
        /\ drained = [i \in Inst |->
                         IF i = "qd1"
                         THEN [NoDrain EXCEPT !.p0 = x[1], !.e0 = x[3]]
                         ELSE NoDrain]
        /\ pc = Idle

NextPoll ==
    \/ Poll("qd1")
    \/ pc = Idle /\ Call_enableSystemTick("qd1")
    \/ pc = Idle /\ Call_disableSystemTick("qd1")
    \/ Tick("qd1")
    \/ \E x \in PollSamples : HwSample(x[1], x[2], MaxPollSamples)

SpecPoll == InitPoll /\ [][NextPoll]_vars

\* C8: after any number of polls of a MicroBitQuadratureDecoder that followed
\* one another (no tick has run inside a poll() of the application), position
\* is the position the polls started from plus the sum of the signed deltas
\* the hardware held, and errors is the starting count plus the sum of the
\* double-transition counts, held at 65535.
C8_PollSums ==
    \A i \in QDInst :
        (Alive(i) /\ pc = Idle /\ ~drained[i].overlap) =>
            /\ getPosition(State, i) = Int64(drained[i].p0 + drained[i].d)
            /\ getErrors(State, i) =
                   IF drained[i].e0 + drained[i].e > 65535 THEN 65535
                   ELSE drained[i].e0 + drained[i].e

\* Two polls or more, none inside another, have delivered a negative total
\* and more double transitions than the counter has room for.
C8_Witness ==
    /\ pc = Idle /\ call.op = "poll" /\ call.self = "qd1"
    /\ ~drained["qd1"].overlap /\ Registered("qd1")
    /\ drained["qd1"].d < -1024
    /\ drained["qd1"].e0 + drained["qd1"].e > 65535

(***************************************************************************)
(* SpecPeriod: the sample period of one MicroBitQuadratureDecoder.         *)
(***************************************************************************)
PeriodArgs == {0, 127, 128, 129, 255, 256, 500, 16384, 100000}

NextPeriod ==
    \/ \E flags \in FlagArgs : Construct("qd1", LEDPinOf("qd1"), 0, flags)
    \/ \E period \in PeriodArgs : Call_setSamplePeriodUs("qd1", period)
    \/ Call_start("qd1")
    \/ Call_stop("qd1")
    \/ Destroy("qd1")

SpecPeriod == Init /\ [][NextPeriod]_vars

\* C10: setSamplePeriodUs(p) with p < 128 returns MICROBIT_INVALID_PARAMETER
\* and changes nothing; with p >= 128 it returns MICROBIT_OK and
\* getSamplePeriod() then returns p.
C10_SetSamplePeriodUs ==
    [][\A i \in QDInst, p \in PeriodArgs :
          Call_setSamplePeriodUs(i, p) =>
              IF p < 128
              THEN /\ call'.ret = MICROBIT_INVALID_PARAMETER
                   /\ UNCHANGED <<obj, QDEC, timer, pinEvent>>
              ELSE /\ call'.ret = MICROBIT_OK
                   /\ getSamplePeriod(State', i) = p]_vars

\* setSamplePeriodUs(127) has been refused on an object whose period an
\* earlier setSamplePeriodUs(500) had set.
C10_Witness ==
    /\ call.op = "setSamplePeriodUs" /\ call.arg = 127
    /\ call.ret = MICROBIT_INVALID_PARAMETER
    /\ Alive(call.self) /\ getSamplePeriod(State, call.self) = 500

(***************************************************************************)
(* SpecCycle: two MicroBitQuadratureDecoder objects that live on, started, *)
(* polled and stopped in any order.  No object is destroyed, so whatever   *)
(* an object holds it has got since its one construction.                  *)
(***************************************************************************)
NextCycle ==
    \/ \E i \in QDInst, flags \in FlagArgs :
           pc = Idle /\ Construct(i, LEDPinOf(i), 0, flags)
    \/ \E i \in QDInst : pc = Idle /\ Call_start(i)
    \/ \E i \in QDInst : pc = Idle /\ Call_stop(i)
    \/ \E i \in QDInst : Poll(i)
    \/ \E x \in Samples : HwSample(x[1], x[2], MaxSamples)

SpecCycle == InitRecording /\ [][NextCycle]_vars

C14_ErrorsSinceStart ==
    [][\A i \in QDInst :
          (Call_start(i) /\ call'.ret = MICROBIT_OK)
          => getErrors(State', i) = 0]_vars

\* C18: a start() that returns MICROBIT_OK leaves both hardware accumulators
\* at 0 and position and errors as they were, whatever the accumulators held
\* before; and the first poll() after it, with no other call in between,
\* reads what the accumulators have gathered from 0 since and adds that to
\* position and errors.
C18_StartDiscardsEarlierCounts ==
    [][\A i \in QDInst :
          /\ (Call_start(i) /\ call'.ret = MICROBIT_OK) =>
                 ( /\ QDEC'.ACC = 0 /\ QDEC'.ACCDBL = 0
                   /\ getPosition(State', i) = getPosition(State, i)
                   /\ getErrors(State', i) = getErrors(State, i) )
          /\ (call.op = "start" /\ call.self = i /\ call.ret = MICROBIT_OK) =>
                 ( /\ Poll_TASKS_READCLRACC(i) =>
                          ( /\ QDEC'.ACCREAD = ToU32(QDEC.ACC)
                            /\ QDEC'.ACCDBLREAD = QDEC.ACCDBL )
                   /\ (Poll_position(i) /\ pc'.loc.positionStored = Words) =>
                          getPosition(State', i) =
                              Add64(pc.loc.position, AsInt32(QDEC.ACCREAD))
                   /\ Poll_errors(i) =>
                          getErrors(State', i) =
                              min(UINT16_MAX, getErrors(State, i) + QDEC.ACCDBLREAD)
                   /\ Poll_return(i) => UNCHANGED <<obj, QDEC>> )]_vars

\* The hardware has taken its one sample, every poll() so far has found the
\* accumulators empty, and a poll() has just returned on the running object:
\* the sample was taken in an earlier run and a start() has discarded it.
C18_Witness ==
    /\ call.op = "poll" /\ Running(call.self)
    /\ nSamples = 1
    /\ QDEC.ACC = 0 /\ QDEC.ACCDBL = 0
    /\ \A i \in QDInst :
           Alive(i) => ( /\ getPosition(State, i) = Int64(0)
                         /\ getErrors(State, i) = 0
                         /\ drained[i].d = 0 /\ drained[i].e = 0 )

(***************************************************************************)
(* SpecDestroy: one object of each class, constructed, started, stopped,   *)
(* switched to and from periodic polling, and destroyed in any state.      *)
(***************************************************************************)
NextDestroy ==
    \/ \E flags \in FlagArgs : Construct("qd1", LEDPinOf("qd1"), 0, flags)
    \/ \E flags \in FlagArgs : ConstructNoLED("qd1", flags)
    \/ Call_enableSystemTick("qd1")
    \/ Call_disableSystemTick("qd1")
    \/ Call_start("qd1")
    \/ Call_stop("qd1")
    \/ Destroy("qd1")
    \/ \E cfg \in CfgArgs : QDec_Construct("qdec", NC, cfg)
    \/ Call_QDec_enableSystemTick("qdec")
    \/ Call_QDec_disableSystemTick("qdec")
    \/ Call_QDec_start("qdec")
    \/ Call_QDec_stop("qdec")
    \/ QDec_Destroy("qdec")
    \/ \E x \in Samples : HwSample(x[1], x[2], MaxSamples)

SpecDestroy == Init /\ [][NextDestroy]_vars

\* C12: the destructor of either class leaves its object not registered with
\* the dispatcher; when the object was running the peripheral is stopped and
\* NRF_QDEC->ENABLE is 0 afterwards, and when it was not running every register
\* and accumulator of the peripheral is as it was.
C12_DestructorStopsAndDeregisters ==
    [][\A i \in Inst :
          (Destroy(i) \/ QDec_Destroy(i)) =>
              /\ timer'[i] = 0
              /\ IF Running(i)
                 THEN QDEC'.ENABLE = 0 /\ ~QDEC'.started
                 ELSE QDEC' = QDEC]_vars

\* A destructor has returned, and the peripheral, last configured for the
\* destroyed object, is stopped and disabled with counts of that run still in
\* its accumulators.
C12_Witness ==
    /\ call.op \in {"~MicroBitQuadratureDecoder", "~MicroBitQDec"}
    /\ QDEC.PSELA = ToU32(PhaseAPin(call.self))
    /\ QDEC.ENABLE = 0 /\ ~QDEC.started
    /\ QDEC.ACC # 0
    /\ timer[call.self] = 0

\* C17: the step that constructs an object, by any constructor of either
\* class with any flags or configuration, leaves the object not running, with
\* position 0 and errors 0 (whatever word the storage held) and not
\* registered, and leaves every register and accumulator of the peripheral as
\* it was.
C17_AfterConstruction ==
    [][\A i \in Inst :
          (~Alive(i) /\ Alive(i)') =>
              /\ ~Bit(obj'[i].status, MICROBIT_COMPONENT_RUNNING)
              /\ IF obj'[i].cls = "MicroBitQDec"
                 THEN /\ QDec_getPosition(State', i) = Int64(0)
                      /\ \A w \in StorageWords :
                             ErrorsValue(QDec_getErrors(State', i), w) = ToU32(0)
                 ELSE /\ getPosition(State', i) = Int64(0)
                      /\ getErrors(State', i) = 0
              /\ timer'[i] = 0
              /\ QDEC' = QDEC]_vars

\* C13: stop() of either class on an object that is not running leaves every
\* register and accumulator of the peripheral as it was and the object not
\* running; and a second stop() after any stop() changes nothing at all.
C13_StopIdempotent ==
    [][\A i \in Inst :
          (Call_stop(i) \/ Call_QDec_stop(i)) =>
              /\ ~Running(i) =>
                     ( /\ QDEC' = QDEC
                       /\ ~Bit(obj'[i].status, MICROBIT_COMPONENT_RUNNING) )
              /\ IF i \in QDInst THEN stop(State', i) = State'
                 ELSE QDec_stop(State', i) = State']_vars

\* stop() has returned on the MicroBitQDec while the MicroBitQuadratureDecoder
\* is running with the peripheral enabled, started and holding counts.
C13_Witness ==
    /\ call.op = "stop" /\ call.self = "qdec"
    /\ Running("qd1")
    /\ QDEC.ENABLE = 1 /\ QDEC.started /\ QDEC.ACC # 0

(***************************************************************************)
(* SpecFrame: every call of one MicroBitQuadratureDecoder, the two         *)
(* accessors included.                                                     *)
(***************************************************************************)
\* getPosition() called by the application: the load of one word of
\* position, then the load of the other word and the return of the two.
GetPosition_load(i) ==
    /\ i \in QDInst /\ Alive(i) /\ pc = Idle
    /\ \E w \in Words :
           pc' = [self |-> i, op |-> "getPosition", at |-> Other(w),
                  loc |-> [NoLocals EXCEPT
                              !.position[w] = getPosition(State, i)[w]]]
    /\ UNCHANGED <<obj, QDEC, timer, pinEvent, call, nSamples, drained>>

GetPosition_return(i) ==
    /\ i \in QDInst /\ pc.self = i /\ pc.op = "getPosition"
    /\ Commit(State)
    /\ pc' = Idle
    /\ Returned("getPosition", i, 0,
                [pc.loc.position EXCEPT ![pc.at] = getPosition(State, i)[pc.at]])
    /\ UNCHANGED <<nSamples, drained>>

Call_getPosition(i) == GetPosition_load(i) \/ GetPosition_return(i)

Call_getErrors(i) ==
    /\ i \in QDInst /\ Alive(i)
    /\ Commit(State)
    /\ Returned("getErrors", i, 0, getErrors(State, i))
    /\ UNCHANGED <<nSamples, drained, pc>>

FramePeriodArgs == {127, 128}

NextFrame ==
    \/ \E flags \in FlagArgs :
           pc = Idle /\ Construct("qd1", LEDPinOf("qd1"), 0, flags)
    \/ pc = Idle /\ Call_enableSystemTick("qd1")
    \/ pc = Idle /\ Call_disableSystemTick("qd1")
    \/ \E period \in FramePeriodArgs :
           pc = Idle /\ Call_setSamplePeriodUs("qd1", period)
    \/ pc = Idle /\ Call_start("qd1")
    \/ pc = Idle /\ Call_stop("qd1")
    \/ Poll("qd1")
    \/ \E v \in ResetArgs : Call_resetPosition("qd1", v)
    \/ Call_getPosition("qd1")
    \/ pc = Idle /\ Call_getErrors("qd1")
    \/ Tick("qd1")
    \/ \E x \in PollSamples : HwSample(x[1], x[2], MaxSamples)

SpecFrame == Init /\ [][NextFrame]_vars

\* C16: start() (returning MICROBIT_OK or MICROBIT_BUSY), stop(),
\* enableSystemTick(), disableSystemTick(), setSamplePeriodUs(), getPosition()
\* and getErrors() leave position and errors as they were, and
\* resetPosition() leaves errors as it was.
C16_OnlyPollChangesCounts ==
    [][\A i \in QDInst :
          /\ ( \/ Call_start(i) \/ Call_stop(i)
               \/ Call_enableSystemTick(i) \/ Call_disableSystemTick(i)
               \/ \E period \in FramePeriodArgs : Call_setSamplePeriodUs(i, period)
               \/ Call_getPosition(i) \/ Call_getErrors(i) )
             => ( /\ getPosition(State', i) = getPosition(State, i)
                  /\ getErrors(State', i) = getErrors(State, i) )
          /\ (\E v \in ResetArgs : Call_resetPosition(i, v))
             => getErrors(State', i) = getErrors(State, i)]_vars

\* setSamplePeriodUs(128) has returned MICROBIT_OK on an object whose position
\* and errors are both non-zero.
C16_Witness ==
    /\ call.op = "setSamplePeriodUs" /\ call.ret = MICROBIT_OK
    /\ getPosition(State, call.self) # Int64(0)
    /\ getErrors(State, call.self) # 0

\* C15: the step on which resetPosition(v) returns leaves getPosition() equal
\* to v, or to v plus the counts a poll of the dispatcher has added since the
\* call stored the first word of v; and every step of resetPosition(v), on an
\* object that is running or not and whatever the hardware accumulators hold,
\* leaves every other field of every object, every register and accumulator
\* of the peripheral, the registrations and the pins as they were.
C15_ResetPositionFrame ==
    [][\A i \in QDInst, v \in ResetArgs :
          /\ ResetPosition_return(i, v) =>
                 \E k \in (0 - MaxSamples)..MaxSamples :
                     getPosition(State', i) = Int64(v + k)
          /\ Call_resetPosition(i, v) =>
                 /\ obj' = [obj EXCEPT ![i].position = getPosition(State', i)]
                 /\ UNCHANGED <<QDEC, timer, pinEvent>>]_vars

\* C19: a step that registers an object with the dispatcher starts with the
\* object not registered and ends with it registered once; and an
\* enableSystemTick() that follows an enableSystemTick() of the same object
\* registers nothing.
C19_NeverRegisteredTwice ==
    [][\A i \in Inst :
          /\ timer'[i] > timer[i] => (timer[i] = 0 /\ timer'[i] = 1)
          /\ ( /\ call.op = "enableSystemTick" /\ call.self = i
               /\ (Call_enableSystemTick(i) \/ Call_QDec_enableSystemTick(i)) )
             => timer'[i] = timer[i]]_vars

\* enableSystemTick() has returned on a running object, which is registered.
C19_Witness ==
    /\ call.op = "enableSystemTick"
    /\ Running(call.self) /\ timer[call.self] = 1

(***************************************************************************)
(* SpecStep: start() and stop() of both classes taken one statement at a   *)
(* time.  The application makes one call at a time; the dispatcher's tick  *)
(* and the hardware's sampling are interrupts and may come between any two *)
(* statements.  pc names the statement the call in progress is about to    *)
(* execute.                                                                *)
(***************************************************************************)
\* MicroBitQuadratureDecoder::stop(), statement by statement.
Stop_enter(i) == i \in QDInst /\ Enter(i, "stop", "remove_component")

Stop_deregister(i) ==
    Step(i, "stop", "remove_component",
         IF Bit(obj[i].status, QDEC_STATUS_USING_SYSTEM_TICK)
         THEN system_timer_remove_component(State, i) ELSE State,
         "TASKS_STOP")

\* The test of the running flag and, when it is set (or was, before an early
\* store of status cleared it), the write of TASKS_STOP.
Stop_TASKS_STOP(i) ==
    IF Running(i) \/ (pc.self = i /\ pc.loc.statusIs = "stored")
    THEN Step(i, "stop", "TASKS_STOP", [State EXCEPT !.QDEC = TASKS_STOP(@)], "ENABLE")
    ELSE Return(i, "stop", "TASKS_STOP", State, VOID)

Stop_ENABLE(i) ==
    IF pc.loc.statusIs = "stored"
    THEN Return(i, "stop", "ENABLE", [State EXCEPT !.QDEC.ENABLE = 0], VOID)
    ELSE Step(i, "stop", "ENABLE", [State EXCEPT !.QDEC.ENABLE = 0], "status")

\* status &= ~MICROBIT_COMPONENT_RUNNING: where the source has it, after the
\* two register writes, or ahead of one of them or both.
Stop_status(i) ==
    \/ Return(i, "stop", "status",
              [State EXCEPT !.obj[i].status = ClearBit(@, MICROBIT_COMPONENT_RUNNING)],
              VOID)
    \/ /\ pc.at = "ENABLE" \/ (pc.at = "TASKS_STOP" /\ Running(i))
       /\ StoreEarly(i, "stop",
              [State EXCEPT !.obj[i].status = ClearBit(@, MICROBIT_COMPONENT_RUNNING)])

\* MicroBitQDec::stop(), statement by statement.
QDec_Stop_enter(i) == i \in QDecInst /\ Enter(i, "stop", "TASKS_STOP")

QDec_Stop_TASKS_STOP(i) ==
    IF Running(i) \/ (pc.self = i /\ pc.loc.statusIs = "stored")
    THEN Step(i, "stop", "TASKS_STOP", [State EXCEPT !.QDEC = TASKS_STOP(@)],
              "ENABLE")
    ELSE Step(i, "stop", "TASKS_STOP", State, "remove_component")

QDec_Stop_ENABLE(i) ==
    StepPast(i, "stop", "ENABLE", [State EXCEPT !.QDEC.ENABLE = 0], "status",
             "remove_component")

\* status &= ~MICROBIT_COMPONENT_RUNNING: where the source has it, after the
\* two register writes, or ahead of one of them or both.
QDec_Stop_status(i) ==
    \/ Step(i, "stop", "status",
            [State EXCEPT !.obj[i].status = ClearBit(@, MICROBIT_COMPONENT_RUNNING)],
            "remove_component")
    \/ /\ pc.at = "ENABLE" \/ (pc.at = "TASKS_STOP" /\ Running(i))
       /\ StoreEarly(i, "stop",
              [State EXCEPT !.obj[i].status = ClearBit(@, MICROBIT_COMPONENT_RUNNING)])

QDec_Stop_deregister(i) ==
    Return(i, "stop", "remove_component",
           IF obj[i].useSystemTick
           THEN system_timer_remove_component(State, i) ELSE State,
           VOID)

\* The statements of start() from the first register write to the last
\* eventOn(), in the order of the source; the label of a statement names the
\* register or the pin it acts on, and the label after the last is
\* TASKS_READCLRACC.
StartLabels ==
    <<"SHORTS", "INTENCLR", "LEDPOL", "SAMPLEPER", "REPORTPER", "PSELLED",
      "PSELA", "PSELB", "DBFEN", "LEDPRE", "LED.eventOn", "phaseA.eventOn",
      "phaseB.eventOn", "TASKS_READCLRACC">>

\* The statement of MicroBitQuadratureDecoder::start() at label l.
start_statement(s, i, l) ==
    LET o == s.obj[i]
    IN  CASE l = "SHORTS" -> [s EXCEPT !.QDEC.SHORTS = 0]
          [] l = "INTENCLR" -> [s EXCEPT !.QDEC.INTEN = 0]
          [] l = "LEDPOL" ->
                 [s EXCEPT !.QDEC.LEDPOL =
                     IF Bit(o.status, QDEC_STATUS_LED_ACTIVE_LOW) THEN 0 ELSE 1]
          [] l = "SAMPLEPER" ->
                 [s EXCEPT !.QDEC.SAMPLEPER = ToU32(FindSamplePer(7, o.samplePeriod))]
          [] l = "REPORTPER" -> [s EXCEPT !.QDEC.REPORTPER = 7]
          [] l = "PSELLED" -> [s EXCEPT !.QDEC.PSELLED = ToU32(o.LED.name)]
          [] l = "PSELA" -> [s EXCEPT !.QDEC.PSELA = ToU32(o.phaseA)]
          [] l = "PSELB" -> [s EXCEPT !.QDEC.PSELB = ToU32(o.phaseB.name)]
          [] l = "DBFEN" ->
                 [s EXCEPT !.QDEC.DBFEN =
                     IF Bit(o.status, QDEC_STATUS_USING_DEBOUNCE) THEN 1 ELSE 0]
          [] l = "LEDPRE" -> [s EXCEPT !.QDEC.LEDPRE = o.LEDDelay]
          [] l = "LED.eventOn" ->
                 IF o.LED.name # NC
                 THEN LED_eventOn(s, i, MICROBIT_PIN_EVENT_NONE) ELSE s
          [] l = "phaseA.eventOn" -> phaseA_eventOn(s, i, MICROBIT_PIN_EVENT_NONE)
          [] l = "phaseB.eventOn" -> phaseB_eventOn(s, i, MICROBIT_PIN_EVENT_NONE)

\* MicroBitQuadratureDecoder::start(), statement by statement.
Start_enter(i) == i \in QDInst /\ Enter(i, "start", "busy")

Start_busy(i) ==
    IF QDEC.ENABLE # 0 \/ Running(i)
    THEN Return(i, "start", "busy", State, MICROBIT_BUSY)
    ELSE Step(i, "start", "busy", State, StartLabels[1])

\* One of the register writes or eventOn() calls of start().
Start_configure(i) ==
    \E k \in 1..(Len(StartLabels) - 1) :
        Step(i, "start", StartLabels[k], start_statement(State, i, StartLabels[k]),
             StartLabels[k + 1])

Start_TASKS_READCLRACC(i) ==
    Step(i, "start", "TASKS_READCLRACC",
         [State EXCEPT !.QDEC = TASKS_READCLRACC(@)], "ENABLE")

Start_ENABLE(i) ==
    Step(i, "start", "ENABLE", [State EXCEPT !.QDEC.ENABLE = 1], "TASKS_START")

Start_TASKS_START(i) ==
    StepPast(i, "start", "TASKS_START", [State EXCEPT !.QDEC = TASKS_START(@)],
             "status", "remove_component")

\* status |= MICROBIT_COMPONENT_RUNNING: where the source has it, after the
\* three register writes that follow the last eventOn(), or ahead of any of
\* them.
Start_status(i) ==
    \/ Step(i, "start", "status",
            [State EXCEPT !.obj[i].status = SetBit(@, MICROBIT_COMPONENT_RUNNING)],
            "remove_component")
    \/ /\ pc.at \in {"TASKS_READCLRACC", "ENABLE", "TASKS_START"}
       /\ StoreEarly(i, "start",
              [State EXCEPT !.obj[i].status = SetBit(@, MICROBIT_COMPONENT_RUNNING)])

Start_deregister(i) ==
    Return(i, "start", "remove_component",
           IF Bit(obj[i].status, QDEC_STATUS_USING_SYSTEM_TICK)
           THEN system_timer_remove_component(State, i) ELSE State,
           MICROBIT_OK)

\* The statement of MicroBitQDec::start() at label l.
QDec_start_statement(s, i, l) ==
    LET o == s.obj[i]
    IN  CASE l = "SHORTS" -> [s EXCEPT !.QDEC.SHORTS = 0]
          [] l = "INTENCLR" -> [s EXCEPT !.QDEC.INTEN = 0]
          [] l = "LEDPOL" ->
                 [s EXCEPT !.QDEC.LEDPOL = IF o.activeHighLED THEN 1 ELSE 0]
          [] l = "SAMPLEPER" ->
                 [s EXCEPT !.QDEC.SAMPLEPER = ToU32(FindSamplePer(7, o.samplePeriod))]
          [] l = "REPORTPER" -> [s EXCEPT !.QDEC.REPORTPER = 7]
          [] l = "PSELLED" -> [s EXCEPT !.QDEC.PSELLED = ToU32(o.LED.name)]
          [] l = "PSELA" -> [s EXCEPT !.QDEC.PSELA = ToU32(o.phaseA)]
          [] l = "PSELB" -> [s EXCEPT !.QDEC.PSELB = ToU32(o.phaseB.name)]
          [] l = "DBFEN" -> [s EXCEPT !.QDEC.DBFEN = IF o.useDebounce THEN 1 ELSE 0]
          [] l = "LEDPRE" -> [s EXCEPT !.QDEC.LEDPRE = o.LEDDelay]
          [] l = "LED.eventOn" ->
                 IF o.LED.name # NC
                 THEN LED_eventOn(s, i, MICROBIT_PIN_EVENT_NONE) ELSE s
          [] l = "phaseA.eventOn" -> phaseA_eventOn(s, i, MICROBIT_PIN_EVENT_NONE)
          [] l = "phaseB.eventOn" -> phaseB_eventOn(s, i, MICROBIT_PIN_EVENT_NONE)

\* MicroBitQDec::start(), statement by statement.
QDec_Start_enter(i) == i \in QDecInst /\ Enter(i, "start", "busy")

QDec_Start_busy(i) ==
    IF QDEC.ENABLE # 0 \/ Running(i)
    THEN Return(i, "start", "busy", State, MICROBIT_BUSY)
    ELSE Step(i, "start", "busy", State, StartLabels[1])

\* One of the register writes or eventOn() calls of MicroBitQDec::start().
QDec_Start_configure(i) ==
    \E k \in 1..(Len(StartLabels) - 1) :
        Step(i, "start", StartLabels[k],
             QDec_start_statement(State, i, StartLabels[k]), StartLabels[k + 1])

QDec_Start_TASKS_READCLRACC(i) ==
    Step(i, "start", "TASKS_READCLRACC",
         [State EXCEPT !.QDEC = TASKS_READCLRACC(@)], "ENABLE")

QDec_Start_ENABLE(i) ==
    Step(i, "start", "ENABLE", [State EXCEPT !.QDEC.ENABLE = 1],
         "remove_component")

QDec_Start_deregister(i) ==
    Step(i, "start", "remove_component",
         IF obj[i].useSystemTick
         THEN system_timer_remove_component(State, i) ELSE State,
         "TASKS_START")

QDec_Start_TASKS_START(i) ==
    IF pc.loc.statusIs = "stored"
    THEN Return(i, "start", "TASKS_START", [State EXCEPT !.QDEC = TASKS_START(@)],
                MICROBIT_OK)
    ELSE Step(i, "start", "TASKS_START", [State EXCEPT !.QDEC = TASKS_START(@)],
              "status")

\* status |= MICROBIT_COMPONENT_RUNNING: where the source has it, after the
\* write of TASKS_START, or ahead of it.
QDec_Start_status(i) ==
    \/ Return(i, "start", "status",
              [State EXCEPT !.obj[i].status = SetBit(@, MICROBIT_COMPONENT_RUNNING)],
              MICROBIT_OK)
    \/ /\ pc.at = "TASKS_START"
       /\ StoreEarly(i, "start",
              [State EXCEPT !.obj[i].status = SetBit(@, MICROBIT_COMPONENT_RUNNING)])

NextStep ==
    \/ pc = Idle /\ Construct("qd1", LEDPinOf("qd1"), 0, 0)
    \/ pc = Idle /\ Call_enableSystemTick("qd1")
    \/ pc = Idle /\ Call_disableSystemTick("qd1")
    \/ Stop_enter("qd1")
    \/ Stop_deregister("qd1")
    \/ Stop_TASKS_STOP("qd1")
    \/ Stop_ENABLE("qd1")
    \/ Stop_status("qd1")
    \/ Start_enter("qd1")
    \/ Start_busy("qd1")
    \/ Start_configure("qd1")
    \/ Start_TASKS_READCLRACC("qd1")
    \/ Start_ENABLE("qd1")
    \/ Start_TASKS_START("qd1")
    \/ Start_status("qd1")
    \/ Start_deregister("qd1")
    \/ Tick("qd1")
    \/ pc = Idle /\ QDec_Construct("qdec", NC, NULL)
    \/ pc = Idle /\ Call_QDec_enableSystemTick("qdec")
    \/ pc = Idle /\ Call_QDec_disableSystemTick("qdec")
    \/ QDec_Stop_enter("qdec")
    \/ QDec_Stop_TASKS_STOP("qdec")
    \/ QDec_Stop_ENABLE("qdec")
    \/ QDec_Stop_status("qdec")
    \/ QDec_Stop_deregister("qdec")
    \/ QDec_Start_enter("qdec")
    \/ QDec_Start_busy("qdec")
    \/ QDec_Start_configure("qdec")
    \/ QDec_Start_TASKS_READCLRACC("qdec")
    \/ QDec_Start_ENABLE("qdec")
    \/ QDec_Start_deregister("qdec")
    \/ QDec_Start_TASKS_START("qdec")
    \/ QDec_Start_status("qdec")
    \/ QDec_Tick("qdec")
    \/ \E x \in Samples : HwSample(x[1], x[2], MaxSamples)

SpecStep == Init /\ [][NextStep]_vars

\* C20: whenever the dispatcher calls systemTick() of an object of either
\* class, between whichever two statements of start() or stop(), the
\* peripheral is enabled, started and configured for that object.
C20_TickOnlyOnRunningPeripheral ==
    [][\A i \in Inst :
          (Tick(i) \/ QDec_Tick(i)) =>
              ( /\ QDEC.ENABLE = 1 /\ QDEC.started
                /\ QDEC.PSELA = ToU32(PhaseAPin(i)) )]_vars

(***************************************************************************)
(* SpecConfig: one MicroBitQuadratureDecoder built by either constructor   *)
(* with every combination of the LED and debounce flags, started and       *)
(* stopped.  The pins start with edge events on, as the application has    *)
(* them when it decodes the encoder from pin events, and the application   *)
(* may switch them on again.                                               *)
(***************************************************************************)
InitConfig ==
    /\ obj = [i \in Inst |-> NoObject]
    /\ QDEC = QDECReset
    /\ timer = [i \in Inst |-> 0]
    /\ pinEvent = [n \in PinNames |-> MICROBIT_PIN_EVENT_ON_EDGE]
    /\ call = NoCall
    /\ nSamples = 0
    /\ drained = [i \in Inst |-> NoRecord]
    /\ pc = Idle

\* The application asks pin n for edge events (MicroBitPin::eventOn).
PinEventOn(n) ==
    /\ pinEvent[n] # MICROBIT_PIN_EVENT_ON_EDGE
    /\ Commit(eventOn(State, n, MICROBIT_PIN_EVENT_ON_EDGE))
    /\ UNCHANGED <<call, nSamples, drained, pc>>

ConfigFlagArgs ==
    {0, QDEC_STATUS_USING_DEBOUNCE, QDEC_STATUS_LED_ACTIVE_LOW,
     QDEC_STATUS_LED_ACTIVE_LOW + QDEC_STATUS_USING_DEBOUNCE
         + MICROBIT_COMPONENT_RUNNING}
LEDDelayArgs == {0, 3, 255}
\* The pins of qd1, the no-connect pin, and a pin that is none of them.
ConfigPins ==
    {PhaseAPin("qd1"), PhaseBPin("qd1"), LEDPinOf("qd1"), NC, PhaseAPin("qd2")}

NextConfig ==
    \/ \E d \in LEDDelayArgs, flags \in ConfigFlagArgs :
           Construct("qd1", LEDPinOf("qd1"), d, flags)
    \/ \E flags \in ConfigFlagArgs : ConstructNoLED("qd1", flags)
    \/ Call_start("qd1")
    \/ Call_stop("qd1")
    \/ Destroy("qd1")
    \/ \E n \in ConfigPins : PinEventOn(n)

SpecConfig == InitConfig /\ [][NextConfig]_vars

\* C21: a start() that returns MICROBIT_OK leaves SHORTS at 0, no interrupt
\* enabled, LEDPOL at 1 exactly when QDEC_STATUS_LED_ACTIVE_LOW is clear,
\* DBFEN at 1 exactly when QDEC_STATUS_USING_DEBOUNCE is set, LEDPRE at
\* LEDDelay, PSELA, PSELB and PSELLED at the names of the object's own pins
\* and ENABLE at 1; the events of the application's two phase pins, and of its
\* LED pin when that is not NC, are off, and the event mode of every other
\* pin is as it was.
C21_StartWritesConfiguration ==
    [][\A i \in QDInst :
          (Call_start(i) /\ call'.ret = MICROBIT_OK) =>
              LET o == obj[i]
              IN  /\ QDEC'.SHORTS = 0
                  /\ QDEC'.INTEN = 0
                  /\ QDEC'.LEDPOL = 1 <=> ~Bit(o.status, QDEC_STATUS_LED_ACTIVE_LOW)
                  /\ QDEC'.LEDPOL \in {0, 1}
                  /\ QDEC'.DBFEN = 1 <=> Bit(o.status, QDEC_STATUS_USING_DEBOUNCE)
                  /\ QDEC'.DBFEN \in {0, 1}
                  /\ QDEC'.LEDPRE = o.LEDDelay
                  /\ QDEC'.PSELA = ToU32(PhaseAPin(i))
                  /\ QDEC'.PSELB = ToU32(PhaseBPin(i))
                  /\ QDEC'.PSELLED = ToU32(o.LED.name)
                  /\ QDEC'.ENABLE = 1
                  /\ \A n \in PinNames :
                        pinEvent'[n] =
                            IF n \in {PhaseAPin(i), PhaseBPin(i)}
                               \/ (n = o.LED.name /\ o.LED.name # NC)
                            THEN MICROBIT_PIN_EVENT_NONE
                            ELSE pinEvent[n]]_vars

\* C22: setSamplePeriodUs() returning MICROBIT_OK on a running object leaves
\* every register of the peripheral as it was; SAMPLEPER changes only in a
\* start() that returns MICROBIT_OK, which writes the level of the period the
\* object holds at that moment.
C22_PeriodTakesEffectAtStart ==
    [][\A i \in QDInst :
          /\ \A p \in PeriodArgs :
                (Call_setSamplePeriodUs(i, p) /\ Running(i)
                     /\ call'.ret = MICROBIT_OK)
                => QDEC' = QDEC
          /\ QDEC'.SAMPLEPER # QDEC.SAMPLEPER =>
                (call'.op = "start" /\ call'.ret = MICROBIT_OK)
          /\ (Call_start(i) /\ call'.ret = MICROBIT_OK) =>
                QDEC'.SAMPLEPER = ToU32(Level(getSamplePeriod(State, i)))]_vars

\* setSamplePeriodUs() has returned MICROBIT_OK on a running object, and
\* SAMPLEPER still holds the level the object was started with, which is not
\* the level of the period it holds now.
C22_Witness ==
    /\ call.op = "setSamplePeriodUs" /\ call.ret = MICROBIT_OK
    /\ Running(call.self)
    /\ QDEC.SAMPLEPER # ToU32(Level(getSamplePeriod(State, call.self)))

\* C24: a MicroBitQuadratureDecoder holds a samplePeriod of at least 128 in
\* every state, so the search loop of start() ends at a level in 0..7 and
\* SAMPLEPER never receives -1.
C24_SamplePeriodAtLeastFloor ==
    \A i \in QDInst :
        Alive(i) =>
            /\ getSamplePeriod(State, i) >= 128
            /\ FindSamplePer(7, getSamplePeriod(State, i)) \in 0..7
            /\ QDEC.SAMPLEPER # ToU32(-1)

\* start() has returned MICROBIT_OK on an object whose period is the longest
\* of the arguments: SAMPLEPER holds level 7.
C24_Witness ==
    /\ call.op = "start" /\ call.ret = MICROBIT_OK
    /\ getSamplePeriod(State, call.self) = 100000
    /\ QDEC.SAMPLEPER = ToU32(7)

(***************************************************************************)
(* SpecConserve: one MicroBitQuadratureDecoder from the return of its      *)
(* start(), polled by the application, access by access, and by the        *)
(* dispatcher, which may tick between any two accesses, while the encoder  *)
(* moves and the application resets the position.  drained["qd1"] also     *)
(* keeps made, the net steps the encoder has made since start() or since   *)
(* the last resetPosition() stored the low word of position; held, what    *)
(* the accumulator held at that store; and torn, whether the dispatcher    *)
(* has polled between the two stores of the last resetPosition().          *)
(***************************************************************************)
InitConserve ==
    /\ obj = PollBase.obj
    /\ QDEC = PollBase.QDEC
    /\ timer = PollBase.timer
    /\ pinEvent = PollBase.pinEvent
    /\ call = [op |-> "start", self |-> "qd1", arg |-> 0, ret |-> MICROBIT_OK]
    /\ nSamples = 0
    /\ drained = [i \in Inst |->
                     [rec |-> TRUE, p0 |-> 0, e0 |-> 0, d |-> 0, e |-> 0,
                      overlap |-> FALSE, made |-> 0, held |-> 0, torn |-> FALSE]]
    /\ pc = Idle

\* drained after resetPosition(v) of object i has stored word w of position:
\* the count of the encoder's steps begins anew at the store of the low word.
DrainAfterStore(i, w, v) ==
    IF Kept(drained[i]) /\ w = "lo"
    THEN [drained EXCEPT ![i].p0 = v, ![i].d = 0,
                         ![i].made = 0, ![i].held = QDEC.ACC]
    ELSE drained

\* resetPosition(v) of object i, store by store.
Conserve_resetPosition(i, v) ==
    \/ /\ i \in QDInst /\ Alive(i) /\ pc = Idle
       /\ \E w \in Words :
              /\ Commit(resetPosition_word(State, i, w, v))
              /\ pc' = [self |-> i, op |-> "resetPosition", at |-> Other(w),
                        loc |-> [NoLocals EXCEPT !.position = Int64(v)]]
              /\ drained' = [DrainAfterStore(i, w, v) EXCEPT ![i].torn = FALSE]
       /\ UNCHANGED <<call, nSamples>>
    \/ /\ i \in QDInst /\ pc.self = i /\ pc.op = "resetPosition"
       /\ pc.loc.position = Int64(v)
       /\ Commit(resetPosition_word(State, i, pc.at, v))
       /\ pc' = Idle
       /\ Returned("resetPosition", i, v, VOID)
       /\ drained' = DrainAfterStore(i, pc.at, v)
       /\ UNCHANGED nSamples

\* systemTick() of object i, called by the dispatcher.
Conserve_Tick(i) ==
    /\ i \in QDInst /\ Alive(i) /\ Registered(i)
    /\ Commit(systemTick(State, i))
    /\ Returned("systemTick", i, 0, VOID)
    /\ drained' = IF pc.self = i /\ pc.op = "resetPosition"
                  THEN [DrainAfterTick(i) EXCEPT ![i].torn = TRUE]
                  ELSE DrainAfterTick(i)
    /\ UNCHANGED <<nSamples, pc>>

\* The enabled, started peripheral samples the encoder of running object i.
Conserve_HwSample(i, d, e, limit) ==
    /\ Running(i)
    /\ QDEC.ENABLE = 1 /\ QDEC.started
    /\ nSamples < limit
    /\ QDEC' = HwAccumulate(QDEC, d, e)
    /\ nSamples' = nSamples + 1
    /\ drained' = IF Kept(drained[i])
                  THEN [drained EXCEPT ![i].made = @ + d]
                  ELSE drained
    /\ UNCHANGED <<obj, timer, pinEvent, call, pc>>

\* A sample while the counts are followed: one step either way.
ConserveSamples == {<<1, 0>>, <<-1, 0>>}

NextConserve ==
    \/ Poll("qd1")
    \/ \E v \in ResetArgs : Conserve_resetPosition("qd1", v)
    \/ pc = Idle /\ Call_enableSystemTick("qd1")
    \/ pc = Idle /\ Call_disableSystemTick("qd1")
    \/ Conserve_Tick("qd1")
    \/ \E x \in ConserveSamples : Conserve_HwSample("qd1", x[1], x[2], MaxPollSamples)

SpecConserve == InitConserve /\ [][NextConserve]_vars

\* The count a poll() of the application in progress has taken from the
\* accumulator and not yet added to the low word of position: none before
\* its trigger of TASKS_READCLRACC, then what ACCREAD holds, then what it has
\* read from it.
InTransit(i) ==
    IF InPoll(i) /\ "lo" \notin pc.loc.positionStored
    THEN CASE pc.at = "TASKS_READCLRACC" -> 0
           [] pc.at = "ACCREAD" -> AsInt32(QDEC.ACCREAD)
           [] OTHER -> pc.loc.acc
    ELSE 0

\* The call in progress on object i has stored one word of position and not
\* yet the other.
HalfStored(i) ==
    /\ pc.self = i
    /\ \/ pc.op = "resetPosition"
       \/ pc.op = "poll" /\ Cardinality(pc.loc.positionStored) = 1

\* C23 as stated: while the object runs and no tick has run inside a poll()
\* of the application, position less the position at start() or the value of
\* the last resetPosition(), plus the count pending in the accumulator (or
\* taken from it by the poll() in progress), is the net steps the encoder has
\* made since then.
C23_CountConservation ==
    \A i \in QDInst :
        (Running(i) /\ ~drained[i].overlap /\ ~HalfStored(i)) =>
            getPosition(State, i) =
                Int64(drained[i].p0 + drained[i].made - QDEC.ACC - InTransit(i))

\* C23 as amended: that sum is the net steps the encoder has made since then
\* plus the count that was pending in the accumulator when resetPosition()
\* stored the low word of position (none after start(), which clears the
\* accumulator).  The equation holds of the low word of position in every
\* state, and of both words in every state in which no call has stored one
\* word of position and not yet the other, unless the dispatcher has polled
\* between the two stores of the last resetPosition().
C23_CountConservationFromPending ==
    \A i \in QDInst :
        (Running(i) /\ ~drained[i].overlap) =>
            LET n == drained[i].p0 + drained[i].made + drained[i].held
                         - QDEC.ACC - InTransit(i)
            IN  /\ getPosition(State, i).lo = Int64(n).lo
                /\ (~drained[i].torn /\ ~HalfStored(i)) =>
                       getPosition(State, i) = Int64(n)

\* A poll() has returned after a resetPosition() that found a count pending
\* and after steps of the encoder that came later; the dispatcher has polled
\* too, and never inside a poll() of the application nor between the two
\* stores of that resetPosition().
C23_Witness ==
    /\ pc = Idle /\ call.op = "poll" /\ call.self = "qd1"
    /\ ~drained["qd1"].overlap /\ ~drained["qd1"].torn /\ Registered("qd1")
    /\ drained["qd1"].held # 0 /\ drained["qd1"].made # 0
    /\ drained["qd1"].d = drained["qd1"].held + drained["qd1"].made

(***************************************************************************)
(* SpecRace: start() of qd1 taken one statement at a time, while start()   *)
(* and stop() of qd2 are called from a context that pre-empts it (an       *)
(* interrupt handler) and run to completion between two statements of it.  *)
(***************************************************************************)
NextRace ==
    \/ \E i \in QDInst : pc = Idle /\ Construct(i, LEDPinOf(i), 0, 0)
    \/ pc = Idle /\ Call_stop("qd1")
    \/ Start_enter("qd1")
    \/ Start_busy("qd1")
    \/ Start_configure("qd1")
    \/ Start_TASKS_READCLRACC("qd1")
    \/ Start_ENABLE("qd1")
    \/ Start_TASKS_START("qd1")
    \/ Start_status("qd1")
    \/ Start_deregister("qd1")
    \/ Call_start("qd2")
    \/ Call_stop("qd2")
    \/ \E x \in Samples : HwSample(x[1], x[2], MaxSamples)

SpecRace == Init /\ [][NextRace]_vars

\* C25: when a start() of one object pre-empts the start() of another
\* between its statements, at most one of the two objects is running once
\* both calls have returned.
C25_AtMostOneStartSucceeds ==
    pc = Idle => Cardinality({i \in QDInst : Running(i)}) <= 1

====
